---- MODULE Spec2Model ----
(***************************************************************************)
(* A model of src/qoi.h: the base QOI codec (qoi_encode, qoi_decode) and   *)
(* the Huffman layer on top of it (qoi_huff_encode, qoi_huff_decode).      *)
(*                                                                         *)
(* A C array is a TLA+ sequence; the C index i is the TLA+ index i + 1.    *)
(* A stack frame of a function is a record whose fields carry the names of *)
(* the function's locals.                                                  *)
(***************************************************************************)
EXTENDS Integers, Sequences, FiniteSets, TLC

\* ------------------------------------------------------------------ bounds

\* Exhaustively enumerated images have at most this many pixels.
MaxPixels == 3
\* The heap calls on their own: the nodes of the tree and the largest heap.
HeapNodes == 3
MaxHeap == 5
\* The longest chunk region of a stream whose body bytes are arbitrary.
MaxBody == 2

\* ------------------------------------------------------- program constants

QOI_OP_INDEX == 0
QOI_OP_DIFF == 64
QOI_OP_LUMA == 128
QOI_OP_RUN == 192
QOI_OP_RGB == 254
QOI_OP_RGBA == 255
QOI_MASK_2 == 192
QOI_HEADER_SIZE == 14
QOI_PIXELS_MAX == 400000000
QOI_HUFF_ENCODED_BIT == 128
\* The run length at which the encoder flushes a RUN chunk.
MaxRun == 62
\* Entries of the running index array.
IndexSize == 64

QOI_MAGIC == <<113, 111, 105, 102>>
qoi_padding == <<0, 0, 0, 0, 0, 0, 0, 1>>

\* ----------------------------------------------------------------- helpers

\* bytes[i] of a C array held as a sequence.
At(bytes, i) == bytes[i + 1]

RECURSIVE BitAnd(_, _)
BitAnd(a, b) ==
    IF a = 0 \/ b = 0 THEN 0
    ELSE ((a % 2) * (b % 2)) + 2 * BitAnd(a \div 2, b \div 2)

RECURSIVE BitOr(_, _)
BitOr(a, b) ==
    IF a = 0 THEN b
    ELSE IF b = 0 THEN a
    ELSE (IF a % 2 = 1 \/ b % 2 = 1 THEN 1 ELSE 0) + 2 * BitOr(a \div 2, b \div 2)

\* Conversion of an int to unsigned char and to signed char.
UChar(x) == x % 256
SChar(x) == ((x + 128) % 256) - 128

\* The four bytes qoi_write_32 appends for v < 2^31, most significant first.
Write32(v) ==
    << (v \div 16777216) % 256, (v \div 65536) % 256, (v \div 256) % 256, v % 256 >>

\* qoi_read_32 at offset p; the magic is compared bytewise, sizes fit an int
\* for every header the model builds.
Read32(bytes, p) ==
    ((At(bytes, p) * 256 + At(bytes, p + 1)) * 256 + At(bytes, p + 2)) * 256
        + At(bytes, p + 3)

Rgba(r, g, b, a) == [r |-> r, g |-> g, b |-> b, a |-> a]
ZeroPx == Rgba(0, 0, 0, 0)
StartPx == Rgba(0, 0, 0, 255)

QOI_COLOR_HASH(C) == C.r * 3 + C.g * 5 + C.b * 7 + C.a * 11

\* QOI_ZEROARR(index)
ZeroIndex == [i \in 0..(IndexSize - 1) |-> ZeroPx]

\* The validation shared by qoi_encode and qoi_huff_encode.
EncodeRejects(a, d) ==
    \/ a.data = "null" \/ a.out_len = "null" \/ a.desc = "null"
    \/ d.width = 0 \/ d.height = 0
    \/ d.channels < 3 \/ d.channels > 4
    \/ d.colorspace > 1
    \/ d.height >= QOI_PIXELS_MAX \div d.width

\* ------------------------------------------------------------ base encoder

\* bytes[p++] = v; with a histogram in the frame this is qoi_write_8_histo.
Put(f, v) ==
    LET g == [f EXCEPT !.bytes = Append(@, v), !.p = @ + 1]
    IN  IF "histo" \in DOMAIN g THEN [g EXCEPT !.histo[v] = @ + 1] ELSE g

RECURSIVE PutAll(_, _)
PutAll(f, vs) == IF vs = <<>> THEN f ELSE PutAll(Put(f, Head(vs)), Tail(vs))

\* One chunk written to the stream. chunks and writes are history fields the
\* encoder never reads: the chunks emitted so far, each with its kind, and the
\* stores into the index array; both with the number n of the pixel (from 0)
\* in whose iteration they happened.
Chunk(op, vs) == [op |-> op, bytes |-> vs]
PutChunk(f, c) ==
    [PutAll(f, c.bytes) EXCEPT
        !.chunks = Append(@, [op |-> c.op, bytes |-> c.bytes,
                              n |-> f.px_pos \div f.channels])]

\* The pixel the loop reads at px_pos: all four bytes of a 4-channel buffer,
\* r, g, b of a 3-channel one (px.a keeps its value).
ReadPixel(f, pixels) ==
    IF f.channels = 4
    THEN Rgba(At(pixels, f.px_pos), At(pixels, f.px_pos + 1),
              At(pixels, f.px_pos + 2), At(pixels, f.px_pos + 3))
    ELSE [f.px EXCEPT !.r = At(pixels, f.px_pos), !.g = At(pixels, f.px_pos + 1),
                      !.b = At(pixels, f.px_pos + 2)]

\* Mutant of RunChunk: the run length stored without its bias of -1.
RunChunkUnbiased(run) == Chunk("RUN", << BitOr(QOI_OP_RUN, run) >>)

\* The RUN chunk for a run of the given length.
RunChunk(run) == Chunk("RUN", << BitOr(QOI_OP_RUN, run - 1) >>)

\* Mutant of ColorChunk: the upper bounds of the differences are taken
\* inclusively.
ColorChunkInclusive(px, px_prev) ==
    IF px.a = px_prev.a
    THEN LET vr == SChar(px.r - px_prev.r)
             vg == SChar(px.g - px_prev.g)
             vb == SChar(px.b - px_prev.b)
             vg_r == SChar(vr - vg)
             vg_b == SChar(vb - vg)
         IN  IF /\ vr > -3 /\ vr <= 2
                /\ vg > -3 /\ vg <= 2
                /\ vb > -3 /\ vb <= 2
             THEN Chunk("DIFF",
                        << BitOr(BitOr(BitOr(QOI_OP_DIFF, (vr + 2) * 16), (vg + 2) * 4),
                                 vb + 2) >>)
             ELSE IF /\ vg_r > -9 /\ vg_r <= 8
                     /\ vg > -33 /\ vg <= 32
                     /\ vg_b > -9 /\ vg_b <= 8
             THEN Chunk("LUMA", << BitOr(QOI_OP_LUMA, vg + 32),
                                   BitOr((vg_r + 8) * 16, vg_b + 8) >>)
             ELSE Chunk("RGB", << QOI_OP_RGB, px.r, px.g, px.b >>)
    ELSE Chunk("RGBA", << QOI_OP_RGBA, px.r, px.g, px.b, px.a >>)

\* The chunk for a pixel that is not in the index: DIFF, LUMA, RGB or RGBA.
ColorChunk(px, px_prev) ==
    IF px.a = px_prev.a
    THEN LET vr == SChar(px.r - px_prev.r)
             vg == SChar(px.g - px_prev.g)
             vb == SChar(px.b - px_prev.b)
             vg_r == SChar(vr - vg)
             vg_b == SChar(vb - vg)
         IN  IF /\ vr > -3 /\ vr < 2
                /\ vg > -3 /\ vg < 2
                /\ vb > -3 /\ vb < 2
             THEN Chunk("DIFF",
                        << BitOr(BitOr(BitOr(QOI_OP_DIFF, (vr + 2) * 16), (vg + 2) * 4),
                                 vb + 2) >>)
             ELSE IF /\ vg_r > -9 /\ vg_r < 8
                     /\ vg > -33 /\ vg < 32
                     /\ vg_b > -9 /\ vg_b < 8
             THEN Chunk("LUMA", << BitOr(QOI_OP_LUMA, vg + 32),
                                   BitOr((vg_r + 8) * 16, vg_b + 8) >>)
             ELSE Chunk("RGB", << QOI_OP_RGB, px.r, px.g, px.b >>)
    ELSE Chunk("RGBA", << QOI_OP_RGBA, px.r, px.g, px.b, px.a >>)

\* The branch of the loop body for a pixel that differs from px_prev.
EncodeChanged(f, px) ==
    LET f1 == IF f.run > 0
              THEN [PutChunk(f, RunChunk(f.run)) EXCEPT !.run = 0]
              ELSE f
        index_pos == QOI_COLOR_HASH(px) % IndexSize
    IN  IF f1.index[index_pos] = px
        THEN PutChunk(f1, Chunk("INDEX", << BitOr(QOI_OP_INDEX, index_pos) >>))
        ELSE PutChunk([f1 EXCEPT !.index[index_pos] = px,
                                 !.writes = Append(@, [n |-> f.px_pos \div f.channels,
                                                       pos |-> index_pos, px |-> px])],
                      ColorChunk(px, f1.px_prev))

\* Mutant of EncodeRun: the run is flushed two pixels late.
EncodeRunLate(f) ==
    LET run == f.run + 1
    IN  IF run = MaxRun + 2 \/ f.px_pos = f.px_end
        THEN [PutChunk(f, RunChunk(run)) EXCEPT !.run = 0]
        ELSE [f EXCEPT !.run = run]

\* The branch of the loop body for a pixel equal to px_prev.
EncodeRun(f) ==
    LET run == f.run + 1
    IN  IF run = MaxRun \/ f.px_pos = f.px_end
        THEN [PutChunk(f, RunChunk(run)) EXCEPT !.run = 0]
        ELSE [f EXCEPT !.run = run]

\* Mutant of EncodeIter: a pixel equal to px_prev is not counted into a run.
EncodeIterNoRun(f, pixels) ==
    LET px == ReadPixel(f, pixels)
        g == EncodeChanged(f, px)
    IN  [g EXCEPT !.px = px, !.px_prev = px, !.px_pos = @ + f.channels]

\* One iteration of the pixel loop of qoi_encode (and of its copy in
\* qoi_huff_encode).
EncodeIter(f, pixels) ==
    LET px == ReadPixel(f, pixels)
        g == IF px = f.px_prev THEN EncodeRun(f) ELSE EncodeChanged(f, px)
    IN  [g EXCEPT !.px = px, !.px_prev = px, !.px_pos = @ + f.channels]

\* The next n iterations of the pixel loop.
RECURSIVE EncodeIters(_, _, _)
EncodeIters(f, pixels, n) ==
    IF n = 0 THEN f
    ELSE IF n = 1 THEN EncodeIter(f, pixels)
    ELSE LET half == EncodeIters(f, pixels, n \div 2)
         IN  IF half.px_pos >= half.px_len THEN half
             ELSE EncodeIters(half, pixels, n - n \div 2)

\* Mutant of EncodeStart: the buffer is sized without the padding.
EncodeStartNoPadding(d) ==
    [ bytes |-> QOI_MAGIC \o Write32(d.width) \o Write32(d.height)
                  \o << d.channels, d.colorspace >>,
      p |-> QOI_HEADER_SIZE,
      max_size |-> d.width * d.height * (d.channels + 1) + QOI_HEADER_SIZE,
      index |-> ZeroIndex,
      run |-> 0,
      px_prev |-> StartPx,
      px |-> StartPx,
      px_len |-> d.width * d.height * d.channels,
      px_end |-> d.width * d.height * d.channels - d.channels,
      px_pos |-> 0,
      channels |-> d.channels,
      chunks |-> <<>>,
      writes |-> <<>> ]

\* The frame after the header has been written, at the head of the loop.
EncodeStart(d) ==
    [ bytes |-> QOI_MAGIC \o Write32(d.width) \o Write32(d.height)
                  \o << d.channels, d.colorspace >>,
      p |-> QOI_HEADER_SIZE,
      max_size |-> d.width * d.height * (d.channels + 1) + QOI_HEADER_SIZE
                     + Len(qoi_padding),
      index |-> ZeroIndex,
      run |-> 0,
      px_prev |-> StartPx,
      px |-> StartPx,
      px_len |-> d.width * d.height * d.channels,
      px_end |-> d.width * d.height * d.channels - d.channels,
      px_pos |-> 0,
      channels |-> d.channels,
      chunks |-> <<>>,
      writes |-> <<>> ]

\* The stream qoi_encode returns for a descriptor it accepts.
qoi_encode(pixels, d) ==
    PutAll(EncodeIters(EncodeStart(d), pixels, d.width * d.height), qoi_padding).bytes

\* The frame before the call and after a rejected call.
NoFrame ==
    [ bytes |-> <<>>, p |-> 0, max_size |-> 0, index |-> ZeroIndex, run |-> 0,
      px_prev |-> StartPx, px |-> StartPx, px_len |-> 0, px_end |-> 0, px_pos |-> 0,
      channels |-> 0, chunks |-> <<>>, writes |-> <<>> ]

\* The frame of qoi_huff_encode at the head of its pixel loop: that of
\* qoi_encode, and the histogram of the bytes written after the header.
HuffEncodeStart(d) ==
    [ f \in DOMAIN EncodeStart(d) \cup {"histo"} |->
        IF f = "histo" THEN [b \in 0..255 |-> 0] ELSE EncodeStart(d)[f] ]

\* --------------------------------------------------------- Huffman encoder

QOI_HUFF_MAX_BIT_NUM == 32
\* The width of unsigned int, which the packing code hard-codes.
UIntBits == 32
\* The number of byte values, and so of leaves of the tree.
Symbols == 256
\* unsigned int stats[20]
StatsSize == 20

\* An unsigned int is modelled as the set of the positions of its one bits,
\* position 0 being the least significant.
Pow2(i) == 2 ^ i
RECURSIVE Val(_)
Val(S) == IF S = {} THEN 0 ELSE LET i == CHOOSE j \in S : TRUE IN Pow2(i) + Val(S \ {i})
Bits(n, w) == { i \in 0..(w - 1) : (n \div Pow2(i)) % 2 = 1 }
\* x << k and x >> k on unsigned int, for k below the width.
Shl(S, k) == { i + k : i \in { j \in S : j + k < UIntBits } }
Shr(S, k) == { i - k : i \in { j \in S : j >= k } }
\* Byte k of an unsigned int, k = 0 being the least significant.
ByteOf(S, k) == Val({ i - 8 * k : i \in { j \in S : j \in (8 * k)..(8 * k + 7) } })

\* A shift by the width or more is undefined: a build either masks the shift
\* count to five bits (the x86 shift instruction) or produces 0 (constant
\* folding, ARM).  shift names what it does at the place of the shift.
ShiftModes == { "mod32", "zero" }
ShlUndef(S, k, shift) ==
    IF k < UIntBits THEN Shl(S, k)
    ELSE IF shift = "mod32" THEN Shl(S, k % UIntBits) ELSE {}
AllOnes == 0..(UIntBits - 1)

\* The content of memory that malloc returned and nothing has written.
Uninit == -1

swap_min_heap(heap, a, b) == [heap EXCEPT ![a + 1] = heap[b + 1], ![b + 1] = heap[a + 1]]

\* The while (idx) loop of insert_min_heap.
RECURSIVE HeapifyUp(_, _, _)
HeapifyUp(heap, tree, idx) ==
    IF idx = 0 THEN heap
    ELSE LET upper == (idx - 1) \div 2
         IN  IF At(tree, At(heap, upper)).count < At(tree, At(heap, idx)).count
             THEN heap
             ELSE HeapifyUp(swap_min_heap(heap, idx, upper), tree, upper)

\* The heap is the sequence of its heapSize live entries.
insert_min_heap(heap, tree, item) == HeapifyUp(Append(heap, item), tree, Len(heap))

\* Mutant of HeapifyDown: with two children the entry is swapped with the left
\* one, whichever is smaller.
RECURSIVE HeapifyDownLeft(_, _, _)
HeapifyDownLeft(heap, tree, idx) ==
    IF idx * 2 + 1 >= Len(heap) THEN heap
    ELSE LET idxLeft == idx * 2 + 1
             idxRight == (idx + 1) * 2
             cur == At(tree, At(heap, idx)).count
             left == At(tree, At(heap, idxLeft)).count
         IN  IF idxRight < Len(heap)
             THEN LET right == At(tree, At(heap, idxRight)).count
                  IN  IF cur < left /\ cur < right THEN heap
                      ELSE HeapifyDownLeft(swap_min_heap(heap, idxLeft, idx), tree, idxLeft)
             ELSE IF left < cur THEN swap_min_heap(heap, idxLeft, idx) ELSE heap

\* The while (idx * 2 + 1 < *heapSize) loop of pop_min_heap.
RECURSIVE HeapifyDown(_, _, _)
HeapifyDown(heap, tree, idx) ==
    IF idx * 2 + 1 >= Len(heap) THEN heap
    ELSE LET idxLeft == idx * 2 + 1
             idxRight == (idx + 1) * 2
             cur == At(tree, At(heap, idx)).count
             left == At(tree, At(heap, idxLeft)).count
         IN  IF idxRight < Len(heap)
             THEN LET right == At(tree, At(heap, idxRight)).count
                  IN  IF cur < left /\ cur < right THEN heap
                      ELSE IF right < left
                      THEN HeapifyDown(swap_min_heap(heap, idxRight, idx), tree, idxRight)
                      ELSE HeapifyDown(swap_min_heap(heap, idxLeft, idx), tree, idxLeft)
             ELSE IF left < cur THEN swap_min_heap(heap, idxLeft, idx) ELSE heap

\* The popped item and the heap that is left.
pop_min_heap(heap, tree) ==
    LET size == Len(heap) - 1
    IN  IF size = 0
        THEN [item |-> heap[1], heap |-> <<>>]
        ELSE [item |-> heap[1],
              heap |-> HeapifyDown([SubSeq(heap, 1, size) EXCEPT ![1] = heap[size + 1]],
                                   tree, 0)]

\* One activation of make_encoded_word.  calls is the stack of the pending
\* activations, its head the one that runs: it writes table[node], or it calls
\* itself for the left child and then for the right one.  1 << len is a
\* shift of an int: undefined for len >= 32.
make_encoded_word(tree, table, calls, shift) ==
    LET node == Head(calls).node
        bits == Head(calls).bits
        len == Head(calls).len
    IN  IF node < Symbols
        THEN [table |-> (node :> [count |-> At(tree, node).count, bits |-> bits,
                                  len |-> len]) @@ table,
              calls |-> Tail(calls)]
        ELSE [table |-> table,
              calls |-> << [node |-> At(tree, node).left, bits |-> bits,
                            len |-> UChar(len + 1)],
                           [node |-> At(tree, node).right,
                            bits |-> bits \cup ShlUndef({0}, len, shift),
                            len |-> UChar(len + 1)] >> \o Tail(calls)]

\* The next n activations of make_encoded_word, or all that are left.
RECURSIVE MakeEncodedWords(_, _, _, _, _)
MakeEncodedWords(tree, table, calls, shift, n) ==
    IF n = 0 \/ calls = <<>> THEN [table |-> table, calls |-> calls]
    ELSE IF n = 1 THEN make_encoded_word(tree, table, calls, shift)
    ELSE LET half == MakeEncodedWords(tree, table, calls, shift, n \div 2)
         IN  IF half.calls = <<>> THEN half
             ELSE MakeEncodedWords(tree, half.table, half.calls, shift, n - n \div 2)

\* encoding_table_t table[256] after make_encoded_word(tree, table, root, 0, 0)
\* has returned: every node of the tree has had one activation.
EncodingTable(tree, root, shift) ==
    MakeEncodedWords(tree, <<>>, << [node |-> root, bits |-> {}, len |-> 0] >>, shift,
                     Len(tree)).table

\* tree[0..255] as the for loop fills it, one leaf at a time.
Leaf(count) == [count |-> count, left |-> -1, right |-> -1]

\* stats[table[i].len]++ writes outside unsigned int stats[20] for some i.
StatsOverflow(table) == \E b \in 0..(Symbols - 1) : table[b].len >= StatsSize

\* The first loop over the table: whether it returns bytes, and expectedSize
\* (in bits) when it does not.
TooLong(table) == \E b \in 0..(Symbols - 1) : table[b].len > QOI_HUFF_MAX_BIT_NUM
RECURSIVE CodedBits(_, _, _)
CodedBits(table, lo, hi) ==
    IF lo = hi THEN table[lo].count * table[lo].len
    ELSE LET mid == (lo + hi) \div 2
         IN  CodedBits(table, lo, mid) + CodedBits(table, mid + 1, hi)
ExpectedBits(table) == (1024 + 256) * 8 + CodedBits(table, 0, Symbols - 1)

\* expectedSize > 10 * 1024 && expectedSize > p * 0.97, with the product taken
\* exactly.
DontBother(expectedSize, p) == expectedSize > 10 * 1024 /\ 100 * expectedSize > 97 * p

\* The size handed to malloc.
AllocSize(expectedSize) == expectedSize + ((4 - (expectedSize % 4)) % 4) + 8

\* qoi_write_16, qoi_write_24 and qoi_write_32 of an unsigned int.
WriteBits(S, n) == [k \in 1..n |-> ByteOf(S, n - k)]

\* The bytes of the code book for the byte values lo .. hi.
RECURSIVE Codebook(_, _, _)
Codebook(table, lo, hi) ==
    IF lo = hi
    THEN LET len == table[lo].len
             n == IF len > 24 THEN 4 ELSE IF len > 16 THEN 3 ELSE 2
         IN  << len >> \o WriteBits(table[lo].bits, n)
    ELSE LET mid == (lo + hi) \div 2
         IN  Codebook(table, lo, mid) \o Codebook(table, mid + 1, hi)

\* huffwords[w] read and written through the bytes of the buffer; the words
\* are little-endian.
ReadWord(mem, w) ==
    UNION { { i + 8 * k : i \in Bits(At(mem, 4 * w + k), 8) } : k \in 0..3 }
WriteWord(mem, w, S) ==
    [mem EXCEPT ![4 * w + 1] = ByteOf(S, 0), ![4 * w + 2] = ByteOf(S, 1),
                ![4 * w + 3] = ByteOf(S, 2), ![4 * w + 4] = ByteOf(S, 3)]

\* The frame of the Huffman part of qoi_huff_encode.
NoHuff ==
    [ tree |-> <<>>, minHeap |-> <<>>, i |-> 0, table |-> <<>>, inv |-> FALSE,
      asserted |-> FALSE, expectedSize |-> 0, mem |-> <<>>, p |-> 0, wordIdx |-> 0,
      bitIdx |-> 0, qoiByteCount |-> 0, oob |-> FALSE ]

\* for (int i = 0; i != 256; i++): tree[i] = leaf; insert_min_heap(...).
HuffLeaf(h, histo) ==
    LET tree == Append(h.tree, Leaf(histo[h.i]))
        heap == insert_min_heap(h.minHeap, tree, h.i)
    IN  [h EXCEPT !.tree = tree, !.minHeap = heap, !.i = @ + 1,
                  !.asserted = @ \/ Len(heap) > Symbols]

\* The next n iterations of that loop.
RECURSIVE HuffLeaves(_, _, _)
HuffLeaves(h, histo, n) ==
    IF n = 0 THEN h
    ELSE IF n = 1 THEN HuffLeaf(h, histo)
    ELSE LET half == HuffLeaves(h, histo, n \div 2)
         IN  IF half.i = Symbols THEN half ELSE HuffLeaves(half, histo, n - n \div 2)

\* One iteration of while (heapSize > 1).
HuffMergeIter(h) ==
    LET l == pop_min_heap(h.minHeap, h.tree)
        r == pop_min_heap(l.heap, h.tree)
        nextFreeNode == Len(h.tree)
        tree == Append(h.tree,
                       [count |-> At(h.tree, l.item).count + At(h.tree, r.item).count,
                        left |-> l.item, right |-> r.item])
        heap == insert_min_heap(r.heap, tree, nextFreeNode)
    IN  [h EXCEPT !.tree = tree, !.minHeap = heap,
                  !.inv = @ \/ At(h.tree, l.item).count > At(h.tree, r.item).count,
                  !.asserted = @ \/ Len(heap) > Symbols]

\* The next n iterations of that loop.
RECURSIVE HuffMerges(_, _)
HuffMerges(h, n) ==
    IF n = 0 \/ Len(h.minHeap) <= 1 THEN h
    ELSE IF n = 1 THEN HuffMergeIter(h)
    ELSE LET half == HuffMerges(h, n \div 2)
         IN  IF Len(half.minHeap) <= 1 THEN half ELSE HuffMerges(half, n - n \div 2)

\* HuffAllocated with the colorspace byte written as it is in the base stream.
HuffAllocatedNoBit(h, d, expectedSize) ==
    LET size == AllocSize(expectedSize)
        head == QOI_MAGIC \o Write32(d.width) \o Write32(d.height)
                  \o << d.channels, d.colorspace >>
                  \o Codebook(h.table, 0, Symbols - 1)
        p == Len(head)
        wordIdx == (p \div 4) + (IF p % 4 # 0 THEN 1 ELSE 0)
        mem == [i \in 1..size |-> IF i <= p THEN head[i] ELSE Uninit]
    IN  [h EXCEPT !.expectedSize = size, !.p = p, !.wordIdx = wordIdx, !.bitIdx = 0,
                  !.i = QOI_HEADER_SIZE,
                  !.oob = p > size \/ 4 * wordIdx + 4 > size,
                  !.mem = IF 4 * wordIdx + 4 > size THEN mem ELSE WriteWord(mem, wordIdx, {})]
\* malloc succeeded: the header, the code book, and the first word cleared.
HuffAllocated(h, d, expectedSize) ==
    LET size == AllocSize(expectedSize)
        head == QOI_MAGIC \o Write32(d.width) \o Write32(d.height)
                  \o << d.channels, BitOr(d.colorspace, QOI_HUFF_ENCODED_BIT) >>
                  \o Codebook(h.table, 0, Symbols - 1)
        p == Len(head)
        wordIdx == (p \div 4) + (IF p % 4 # 0 THEN 1 ELSE 0)
        mem == [i \in 1..size |-> IF i <= p THEN head[i] ELSE Uninit]
    IN  [h EXCEPT !.expectedSize = size, !.p = p, !.wordIdx = wordIdx, !.bitIdx = 0,
                  !.i = QOI_HEADER_SIZE,
                  !.oob = p > size \/ 4 * wordIdx + 4 > size,
                  !.mem = IF 4 * wordIdx + 4 > size THEN mem ELSE WriteWord(mem, wordIdx, {})]

\* One iteration of for (i = QOI_HEADER_SIZE; i != qoiByteCount; i++).
HuffPackIter(h, bytes, shift) ==
    LET bits == h.table[At(bytes, h.i)].bits
        len == h.table[At(bytes, h.i)].len
        mask == AllOnes \ ShlUndef(AllOnes, UIntBits, shift)
        newBitIdx == h.bitIdx + len
        bitIdx == newBitIdx % UIntBits
        wordIdx == IF newBitIdx >= UIntBits THEN h.wordIdx + 1 ELSE h.wordIdx
        m1 == WriteWord(h.mem, h.wordIdx,
                        ReadWord(h.mem, h.wordIdx) \cup (Shl(bits, h.bitIdx) \cap mask))
        m2 == IF newBitIdx >= UIntBits THEN WriteWord(m1, wordIdx, {}) ELSE m1
        m3 == IF newBitIdx > UIntBits
              THEN WriteWord(m2, wordIdx, ReadWord(m2, wordIdx) \cup Shr(bits, len - bitIdx))
              ELSE m2
    IN  IF 4 * wordIdx + 4 > Len(h.mem)
        THEN [h EXCEPT !.oob = TRUE, !.i = @ + 1]
        ELSE [h EXCEPT !.mem = m3, !.wordIdx = wordIdx, !.bitIdx = bitIdx, !.i = @ + 1]

\* The next n iterations of that loop, up to a write outside the buffer.
RECURSIVE HuffPackLoop(_, _, _, _)
HuffPackLoop(h, bytes, shift, n) ==
    IF n = 0 \/ h.oob THEN h
    ELSE IF n = 1 THEN HuffPackIter(h, bytes, shift)
    ELSE LET half == HuffPackLoop(h, bytes, shift, n \div 2)
         IN  IF half.oob THEN half ELSE HuffPackLoop(half, bytes, shift, n - n \div 2)

\* ------------------------------------------------------------ base decoder

\* The header checks of qoi_decode after the descriptor has been filled.
DecodeRejects(magic, d) ==
    \/ d.width = 0 \/ d.height = 0
    \/ d.channels < 3 \/ d.channels > 4
    \/ d.colorspace > 1
    \/ magic # QOI_MAGIC
    \/ d.height >= QOI_PIXELS_MAX \div d.width

\* The argument checks made before the header is read.
DecodeArgsRejected(a) ==
    \/ a.data = "null" \/ a.desc = "null"
    \/ (a.channels # 0 /\ a.channels # 3 /\ a.channels # 4)
    \/ a.size < QOI_HEADER_SIZE + Len(qoi_padding)

\* The descriptor as the header read fills it.
HeaderDesc(bytes) ==
    [ width |-> Read32(bytes, 4), height |-> Read32(bytes, 8),
      channels |-> At(bytes, 12), colorspace |-> At(bytes, 13) ]

\* The frame of the pixel loop: qoi_decode after its malloc, and
\* qoi_decode_buffer at entry. pixels holds the bytes written so far; the
\* rest of the px_len bytes of the buffer is uninitialised memory.
DecodeStart(d, channels, size) ==
    [ p |-> QOI_HEADER_SIZE,
      run |-> 0,
      index |-> ZeroIndex,
      px |-> StartPx,
      px_len |-> d.width * d.height * channels,
      chunks_len |-> size - Len(qoi_padding),
      px_pos |-> 0,
      channels |-> channels,
      pixels |-> <<>>,
      oob |-> FALSE ]

NoDecode ==
    [ p |-> 0, run |-> 0, index |-> ZeroIndex, px |-> StartPx, px_len |-> 0,
      chunks_len |-> 0, px_pos |-> 0, channels |-> 0, pixels |-> <<>>, oob |-> FALSE ]

\* bytes[p++] for the reads that follow the tag byte; oob records a read at or
\* beyond size (a history field).
Take(f, bytes, k) == [f EXCEPT !.p = @ + k, !.oob = @ \/ (f.p + k > Len(bytes))]
Peek(f, bytes, i) == IF f.p + i < Len(bytes) THEN At(bytes, f.p + i) ELSE 0

\* The chunk whose tag byte b1 has just been read, applied to px.
DecodeChunk(f, bytes, b1) ==
    IF b1 = QOI_OP_RGB
    THEN [Take(f, bytes, 3) EXCEPT !.px.r = Peek(f, bytes, 0),
                                   !.px.g = Peek(f, bytes, 1),
                                   !.px.b = Peek(f, bytes, 2)]
    ELSE IF b1 = QOI_OP_RGBA
    THEN [Take(f, bytes, 4) EXCEPT !.px.r = Peek(f, bytes, 0),
                                   !.px.g = Peek(f, bytes, 1),
                                   !.px.b = Peek(f, bytes, 2),
                                   !.px.a = Peek(f, bytes, 3)]
    ELSE IF BitAnd(b1, QOI_MASK_2) = QOI_OP_INDEX
    THEN [f EXCEPT !.px = f.index[b1]]
    ELSE IF BitAnd(b1, QOI_MASK_2) = QOI_OP_DIFF
    THEN [f EXCEPT !.px.r = UChar(@ + BitAnd(b1 \div 16, 3) - 2),
                   !.px.g = UChar(@ + BitAnd(b1 \div 4, 3) - 2),
                   !.px.b = UChar(@ + BitAnd(b1, 3) - 2)]
    ELSE IF BitAnd(b1, QOI_MASK_2) = QOI_OP_LUMA
    THEN LET b2 == Peek(f, bytes, 0)
             vg == BitAnd(b1, 63) - 32
         IN  [Take(f, bytes, 1) EXCEPT
                 !.px.r = UChar(@ + vg - 8 + BitAnd(b2 \div 16, 15)),
                 !.px.g = UChar(@ + vg),
                 !.px.b = UChar(@ + vg - 8 + BitAnd(b2, 15))]
    ELSE [f EXCEPT !.run = BitAnd(b1, 63)]

\* The store of px into the output buffer at px_pos.
StorePixel(f) ==
    [f EXCEPT !.pixels = @ \o (IF f.channels = 4
                               THEN << f.px.r, f.px.g, f.px.b, f.px.a >>
                               ELSE << f.px.r, f.px.g, f.px.b >>),
              !.px_pos = @ + f.channels]

\* Mutant of DecodeIter: a chunk is read without the test p < chunks_len.
DecodeIterNoEnd(f, bytes) ==
    LET g == IF f.run > 0
             THEN [f EXCEPT !.run = @ - 1]
             ELSE LET h == DecodeChunk([f EXCEPT !.p = @ + 1], bytes, At(bytes, f.p))
                  IN  [h EXCEPT !.index[QOI_COLOR_HASH(h.px) % IndexSize] = h.px]
    IN  StorePixel(g)

\* One iteration of the pixel loop of qoi_decode (and of its copy,
\* qoi_decode_buffer).
DecodeIter(f, bytes) ==
    LET g == IF f.run > 0
             THEN [f EXCEPT !.run = @ - 1]
             ELSE IF f.p < f.chunks_len
             THEN LET h == DecodeChunk([f EXCEPT !.p = @ + 1], bytes, At(bytes, f.p))
                  IN  [h EXCEPT !.index[QOI_COLOR_HASH(h.px) % IndexSize] = h.px]
             ELSE f
    IN  StorePixel(g)

\* --------------------------------------------------------- Huffman decoder

QOI_HUFF_DECODING_TABLE_WIDTH == 11
\* decoding_tree_t treeNodes[512]
TreeSize == 512
TableSize == Pow2(QOI_HUFF_DECODING_TABLE_WIDTH)
\* The bit of a table entry that marks the root of a decision tree.
TreeBit == Pow2(15)

\* treeNodes is the sequence of the nodes allocated so far: nextFreeNode is
\* its length, and treeNodes[i] for i >= nextFreeNode is uninitialised memory
\* (i < 512) or outside the array.  fault names the first access that leaves
\* the arrays or reads such memory; asserted records a failed assert, after
\* which a build without NDEBUG has aborted.
HuffDecodeStart ==
    [ byteValue |-> 0,
      table |-> [i \in 0..(TableSize - 1) |-> 0],
      treeNodes |-> <<>>,
      wordIdx |-> 0,
      bitIdx |-> 0,
      status |-> 0,
      asserted |-> FALSE,
      fault |-> "none" ]

\* A decoding_tree_t.  The union is kept as its two shorts: leaf.len and
\* leaf.byteValue are the low and the high byte of node.left (the layout of a
\* little-endian build), and node.right of a node made as a leaf holds no
\* value until it is written.
SShort(x) == ((x + 32768) % 65536) - 32768
Node(left, right) == [isLeaf |-> FALSE, left |-> left, right |-> right, rightSet |-> TRUE]
LeafNode(len, byteValue) ==
    [isLeaf |-> TRUE, left |-> SShort(len + 256 * byteValue), right |-> 0,
     rightSet |-> FALSE]
LeafLen(node) == node.left % 256
LeafByteValue(node) == (node.left \div 256) % 256

\* What an access treeNodes[idx] is.
TreeAccess(h, idx) ==
    IF idx < 0 \/ idx >= TreeSize THEN "tree"
    ELSE IF idx >= Len(h.treeNodes) THEN "uninit"
    ELSE "none"

\* treeNodes[nextFreeNode++] = node
AllocNode(h, node) ==
    IF Len(h.treeNodes) >= TreeSize
    THEN [h EXCEPT !.fault = "tree"]
    ELSE [h EXCEPT !.treeNodes = Append(@, node)]

\* The unsigned int qoi_read_16, qoi_read_24 or qoi_read_32 returns.
ReadBits(bytes, p, n) ==
    UNION { { i + 8 * (n - 1 - k) : i \in Bits(At(bytes, p + k), 8) } : k \in 0..(n - 1) }

\* Mutant of ShortCode: the span covers half of the extensions of the code.
ShortCodeHalfSpan(h, len, bits) ==
    LET spanLength == Pow2(QOI_HUFF_DECODING_TABLE_WIDTH - len) \div 2
        idx == { Val({ j + len : j \in Bits(i, QOI_HUFF_DECODING_TABLE_WIDTH) } \cup bits) :
                   i \in 0..(spanLength - 1) }
        entry == BitAnd(len, 63) * 256 + h.byteValue
    IN  IF \E j \in bits : j >= QOI_HUFF_DECODING_TABLE_WIDTH
        THEN [h EXCEPT !.fault = "table"]
        ELSE [h EXCEPT !.table = [i \in idx |-> entry] @@ @,
                       !.asserted = @ \/ (\E i \in idx : h.table[i] # 0)]

\* The entries of the lookup table a code word of at most 11 bits fills.
ShortCode(h, len, bits) ==
    LET spanLength == Pow2(QOI_HUFF_DECODING_TABLE_WIDTH - len)
        idx == { Val({ j + len : j \in Bits(i, QOI_HUFF_DECODING_TABLE_WIDTH) } \cup bits) :
                   i \in 0..(spanLength - 1) }
        entry == BitAnd(len, 63) * 256 + h.byteValue
    IN  IF \E j \in bits : j >= QOI_HUFF_DECODING_TABLE_WIDTH
        THEN [h EXCEPT !.fault = "table"]
        ELSE [h EXCEPT !.table = [i \in idx |-> entry] @@ @,
                       !.asserted = @ \/ (\E i \in idx : h.table[i] # 0)
                                      \/ (entry # 0 /\ Cardinality(idx) < spanLength)]

\* The for loop that walks and builds the decision tree along the bits of a
\* long code word, from iteration i on.
RECURSIVE LongCodePath(_, _, _, _, _, _)
LongCodePath(h, treeIdx, leadingBits, i, leadingLength, len) ==
    LET bit == 0 \in leadingBits
        last == i = leadingLength - 1
        g == IF last THEN AllocNode(h, LeafNode(UChar(len), h.byteValue)) ELSE h
        cur == At(g.treeNodes, treeIdx)
        child == IF bit THEN cur.right ELSE cur.left
        attach(to) ==
            IF bit
            THEN [g EXCEPT !.treeNodes[treeIdx + 1].right = to,
                           !.treeNodes[treeIdx + 1].rightSet = TRUE]
            ELSE [g EXCEPT !.treeNodes[treeIdx + 1].left = to]
    IN  IF i = leadingLength \/ g.fault # "none" THEN g
        ELSE IF TreeAccess(g, treeIdx) # "none"
        THEN [g EXCEPT !.fault = TreeAccess(g, treeIdx)]
        ELSE IF last
        THEN [attach(Len(h.treeNodes)) EXCEPT
                 !.asserted = @ \/ cur.isLeaf \/ (bit /\ ~cur.rightSet) \/ child >= 0]
        ELSE IF bit /\ ~cur.rightSet
        THEN [g EXCEPT !.asserted = TRUE, !.fault = "uninit"]
        ELSE IF child < 0
        THEN LET n == AllocNode(attach(Len(h.treeNodes)), Node(-1, -1))
             IN  IF Len(h.treeNodes) >= TreeSize
                 THEN [h EXCEPT !.asserted = @ \/ cur.isLeaf, !.fault = "tree"]
                 ELSE LongCodePath([n EXCEPT !.asserted = @ \/ cur.isLeaf], Len(h.treeNodes),
                                   Shr(leadingBits, 1), i + 1, leadingLength, len)
        ELSE LongCodePath([g EXCEPT !.asserted = @ \/ cur.isLeaf], child,
                          Shr(leadingBits, 1), i + 1, leadingLength, len)

\* The decision tree entry of a code word of more than 11 bits.
LongCode(h, len, bits) ==
    LET truncatedBits == Val({ j \in bits : j < QOI_HUFF_DECODING_TABLE_WIDTH })
        leadingBits == Shr(bits, QOI_HUFF_DECODING_TABLE_WIDTH)
        entry == h.table[truncatedBits]
        nextFreeNode == Len(h.treeNodes)
        g == IF entry = 0
             THEN [AllocNode(h, Node(-1, -1)) EXCEPT
                      !.table[truncatedBits] = nextFreeNode + TreeBit]
             ELSE [h EXCEPT !.asserted = @ \/ entry < TreeBit]
        treeIdx == IF entry = 0 THEN nextFreeNode ELSE entry % TreeBit
    IN  IF g.fault # "none" THEN g
        ELSE LongCodePath(g, treeIdx, leadingBits, 0, len - QOI_HUFF_DECODING_TABLE_WIDTH, len)

\* One iteration of for (byteValue = 0; byteValue != 256; byteValue++) of
\* qoi_huff_decode_buffer on the frame f of the caller; status -1 is its
\* return -1.
HuffReadEntry(f, h, bytes, size) ==
    IF f.p >= size THEN [f |-> f, h |-> [h EXCEPT !.status = -1]]
    ELSE LET len == At(bytes, f.p)
             n == IF len > 24 THEN 4 ELSE IF len > 16 THEN 3 ELSE 2
             p == f.p + 1
         IN  IF p + n > size THEN [f |-> [f EXCEPT !.p = p], h |-> [h EXCEPT !.status = -1]]
             ELSE LET bits == ReadBits(bytes, p, n)
                      g == IF len <= QOI_HUFF_DECODING_TABLE_WIDTH
                           THEN ShortCode(h, len, bits)
                           ELSE LongCode(h, len, bits)
                  IN  [f |-> [f EXCEPT !.p = p + n],
                       h |-> [g EXCEPT !.byteValue = @ + 1]]

\* The next n iterations of that loop, up to a return -1 or a fault.
RECURSIVE HuffReadEntries(_, _, _, _)
HuffReadEntries(r, bytes, size, n) ==
    IF n = 0 \/ r.h.status = -1 \/ r.h.fault # "none" THEN r
    ELSE IF n = 1 THEN HuffReadEntry(r.f, r.h, bytes, size)
    ELSE LET half == HuffReadEntries(r, bytes, size, n \div 2)
         IN  IF half.h.status = -1 \/ half.h.fault # "none" THEN half
             ELSE HuffReadEntries(half, bytes, size, n - n \div 2)

\* words, wordIdx and bitIdx as they are set after the code book.
HuffWordsStart(h, p) ==
    [h EXCEPT !.wordIdx = (p \div 4) + (IF p % 4 # 0 THEN 1 ELSE 0), !.bitIdx = 0]

\* The walk of huff_decode_next_byte down the decision tree.  A child of -1
\* becomes the unsigned short 65535.
RECURSIVE WalkTree(_, _, _)
WalkTree(h, node, trailingBits) ==
    IF TreeAccess(h, node) # "none" THEN [fault |-> TreeAccess(h, node)]
    ELSE LET cur == At(h.treeNodes, node)
         IN  IF cur.isLeaf
             THEN [fault |-> "none", byteValue |-> LeafByteValue(cur), len |-> LeafLen(cur)]
             ELSE WalkTree(h, (IF 0 \in trailingBits THEN cur.right ELSE cur.left) % 65536,
                           Shr(trailingBits, 1))

\* huff_decode_next_byte: the byte it returns and the frame with wordIdx and
\* bitIdx advanced.  Nothing is decoded after a fault.
huff_decode_next_byte(h, bytes, size) ==
    IF h.fault # "none" \/ h.wordIdx + 1 >= size \div 4 THEN [byte |-> 0, h |-> h]
    ELSE LET word == ReadWord(bytes, h.wordIdx)
                       \cup { i + UIntBits : i \in ReadWord(bytes, h.wordIdx + 1) }
             bits == { i - h.bitIdx : i \in { j \in word : j >= h.bitIdx } }
             leadingBits == Val({ i \in bits : i < QOI_HUFF_DECODING_TABLE_WIDTH })
             trailingBits == { i - QOI_HUFF_DECODING_TABLE_WIDTH :
                                 i \in { j \in bits : j >= QOI_HUFF_DECODING_TABLE_WIDTH
                                                      /\ j < QOI_HUFF_DECODING_TABLE_WIDTH
                                                             + UIntBits } }
             entry == h.table[leadingBits]
             found == IF entry < TreeBit
                      THEN [fault |-> "none", byteValue |-> entry % 256, len |-> entry \div 256]
                      ELSE WalkTree(h, entry % TreeBit, trailingBits)
         IN  IF found.fault # "none"
             THEN [byte |-> 0, h |-> [h EXCEPT !.fault = found.fault]]
             ELSE [byte |-> found.byteValue,
                   h |-> [h EXCEPT !.bitIdx = (@ + found.len) % UIntBits,
                                   !.wordIdx = IF h.bitIdx + found.len >= UIntBits
                                               THEN @ + 1 ELSE @,
                                   !.asserted = @ \/ entry = 0]]

\* n successive calls of huff_decode_next_byte.
RECURSIVE NextBytes(_, _, _, _)
NextBytes(h, bytes, size, n) ==
    IF n = 0 THEN [bytes |-> <<>>, h |-> h]
    ELSE LET first == huff_decode_next_byte(h, bytes, size)
             rest == NextBytes(first.h, bytes, size, n - 1)
         IN  [bytes |-> << first.byte >> \o rest.bytes, h |-> rest.h]

\* The chunk of tag b1 applied to px; b holds the bytes decoded after b1.
HuffDecodeChunk(f, b1, b) ==
    IF b1 = QOI_OP_RGB
    THEN [f EXCEPT !.px.r = b[1], !.px.g = b[2], !.px.b = b[3]]
    ELSE IF b1 = QOI_OP_RGBA
    THEN [f EXCEPT !.px.r = b[1], !.px.g = b[2], !.px.b = b[3], !.px.a = b[4]]
    ELSE IF BitAnd(b1, QOI_MASK_2) = QOI_OP_INDEX
    THEN [f EXCEPT !.px = f.index[b1]]
    ELSE IF BitAnd(b1, QOI_MASK_2) = QOI_OP_DIFF
    THEN [f EXCEPT !.px.r = UChar(@ + BitAnd(b1 \div 16, 3) - 2),
                   !.px.g = UChar(@ + BitAnd(b1 \div 4, 3) - 2),
                   !.px.b = UChar(@ + BitAnd(b1, 3) - 2)]
    ELSE IF BitAnd(b1, QOI_MASK_2) = QOI_OP_LUMA
    THEN LET vg == BitAnd(b1, 63) - 32
         IN  [f EXCEPT !.px.r = UChar(@ + vg - 8 + BitAnd(b[1] \div 16, 15)),
                       !.px.g = UChar(@ + vg),
                       !.px.b = UChar(@ + vg - 8 + BitAnd(b[1], 15))]
    ELSE [f EXCEPT !.run = BitAnd(b1, 63)]

\* The number of bytes a chunk of tag b1 reads after the tag.
Operands(b1) ==
    IF b1 = QOI_OP_RGB THEN 3
    ELSE IF b1 = QOI_OP_RGBA THEN 4
    ELSE IF BitAnd(b1, QOI_MASK_2) = QOI_OP_LUMA THEN 1
    ELSE 0

\* One iteration of the pixel loop of qoi_huff_decode_buffer.  On continue
\* the pixel at px_pos is not written.
HuffDecodeIter(f, h, bytes, size) ==
    IF f.run > 0
    THEN [f |-> StorePixel([f EXCEPT !.run = @ - 1]), h |-> h]
    ELSE LET tag == huff_decode_next_byte(h, bytes, size)
             b1 == tag.byte
             rest == NextBytes(tag.h, bytes, size, Operands(b1))
             g == HuffDecodeChunk(f, b1, rest.bytes)
         IN  IF tag.h.wordIdx * 4 >= size
             THEN [f |-> [f EXCEPT !.pixels = @ \o [k \in 1..f.channels |-> Uninit],
                                   !.px_pos = @ + f.channels],
                   h |-> tag.h]
             ELSE [f |-> StorePixel([g EXCEPT !.index[QOI_COLOR_HASH(g.px) % IndexSize] =
                                                g.px]),
                   h |-> rest.h]

\* The frame of qoi_huff_decode_buffer before the call.
NoHuffDecode == [HuffDecodeStart EXCEPT !.table = <<>>]

\* ------------------------------------------------------------------ inputs

\* Pixel values that between them take every branch of the encoder: the start
\* value of px_prev, the zero pixel the index is initialised with, a DIFF with
\* wraparound, an alpha change, a LUMA step, an RGB step. The last two share
\* the index position 25.
Palette ==
    { StartPx, ZeroPx, Rgba(255, 0, 1, 255), Rgba(10, 20, 30, 40),
      Rgba(3, 4, 1, 255), Rgba(100, 0, 200, 255) }

\* Images long enough to reach the run length at which RUN is flushed: runs of
\* one colour, optionally after or before another pixel.
RunLens == { MaxRun - 1, MaxRun, MaxRun + 1, 2 * MaxRun, 2 * MaxRun + 1 }
Fill(c, n) == [i \in 1..n |-> c]
LongImages ==
    { head \o Fill(c, n) \o tail :
        head \in { <<>>, << Rgba(3, 4, 1, 255) >> },
        c \in Palette, n \in RunLens,
        tail \in { <<>>, << Rgba(100, 0, 200, 255) >> } }

\* The pixel buffer of an image: channels bytes per pixel.
Flatten(img, channels) ==
    [ i \in 1..(Len(img) * channels) |->
        LET px == img[((i - 1) \div channels) + 1]
            c == (i - 1) % channels
        IN  IF c = 0 THEN px.r ELSE IF c = 1 THEN px.g ELSE IF c = 2 THEN px.b
            ELSE px.a ]

\* Images for qoi_huff_encode.  Pixel k of Ramp(n) has the bytes 4k .. 4k + 3,
\* so that the stream of an n-pixel ramp holds 4n byte values and the code
\* word lengths fall as n grows; the short and the long-run images use few
\* byte values and get the longest code words.
Ramp(n) == [k \in 1..n |-> Rgba(4 * k - 4, 4 * k - 3, 4 * k - 2, 4 * k - 1)]
RampWidths == { 56, 58, 60, 62, 64 }
HuffCalls ==
    { [img |-> Ramp(n), channels |-> 4, colorspace |-> IF n = 62 THEN 1 ELSE 0] :
        n \in RampWidths }
    \cup { [img |-> << StartPx >>, channels |-> 4, colorspace |-> 1],
           [img |-> << Rgba(10, 20, 30, 40), ZeroPx >>, channels |-> 3, colorspace |-> 0],
           [img |-> Fill(Rgba(3, 4, 1, 255), MaxRun + 1), channels |-> 4,
            colorspace |-> 0] }

\* Images of two pixels for the choice of the chunk kind: the second pixel is
\* the first plus differences at and next to the bounds of DIFF and LUMA, with
\* the same or another alpha; the channel values of the first wrap around for
\* some of them.
GreenDiffs == { -128, -33, -32, -3, -2, 0, 1, 2, 31, 32, 127 }
RedBlueDiffs == { -9, -8, -3, -1, 0, 2, 3, 7, 8 }
FirstPixels == { Rgba(250, 3, 128, 255), Rgba(0, 255, 7, 40) }
PixelPairs ==
    { << c, Rgba((c.r + vg + vg_r) % 256, (c.g + vg) % 256, (c.b + vg + vg_b) % 256,
                 (c.a + va) % 256) >> :
        c \in FirstPixels, vg \in GreenDiffs, vg_r \in RedBlueDiffs, vg_b \in RedBlueDiffs,
        va \in {0, 1} }

\* Images of n pixels whose base stream is n RGBA chunks, about 10 KiB, and
\* uses every byte value; the alpha values are taken modulo am, which sets how
\* well the stream compresses.
BigImage(n, am) ==
    [k \in 1..n |-> Rgba((3 * (k - 1)) % 256, (5 * (k - 1) + 1) % 256,
                         (7 * (k - 1) + 2) % 256, (11 * (k - 1) + 3) % am)]
BigCalls ==
    { [n |-> 2043, am |-> 256], [n |-> 2044, am |-> 256],
      [n |-> 2044, am |-> 32], [n |-> 2044, am |-> 8] }

\* Code books for qoi_huff_decode that qoi_huff_encode does not write.
\* FlatTable gives byte value b the eight bits of b as its code word.
FlatTable == [b \in 0..(Symbols - 1) |-> [len |-> 8, bits |-> Bits(b, 8)]]
\* the bits of byte value 5 do not fit the lookup table
WideBitsTable == [FlatTable EXCEPT ![5] = [len |-> 0, bits |-> Bits(65535, 16)]]
\* thirty-two code words of 33 bits on thirty-two paths
DeepTable ==
    [b \in 0..(Symbols - 1) |->
       IF b < 32 THEN [len |-> 33, bits |-> Shl(Bits(b, 5), QOI_HUFF_DECODING_TABLE_WIDTH)]
       ELSE FlatTable[b]]
\* a long code word behind the table slot of a short one
ShadowedTable == [FlatTable EXCEPT ![1] = [len |-> 12, bits |-> {}]]
\* a decision tree with a single leaf, left of its root
LoneLeafTable == [FlatTable EXCEPT ![0] = [len |-> 12, bits |-> {}]]
CorruptTables == { WideBitsTable, DeepTable, ShadowedTable, LoneLeafTable }

\* A Huffman stream of a 3x1 image in four channels that has the code book of
\* table and a body whose first code word has its bit 11 set.
Pad4(bytes) == bytes \o [k \in 1..((4 - (Len(bytes) % 4)) % 4) |-> 0]
FileStream(table) ==
    Pad4(QOI_MAGIC \o Write32(3) \o Write32(1) \o << 4, QOI_HUFF_ENCODED_BIT >>
         \o Codebook(table, 0, Symbols - 1))
    \o << 0, 8, 0, 0 >> \o [k \in 1..12 |-> 0]

\* Streams that did not come from the encoder: with a code book the encoder
\* does not write, and cut inside the code book (these cuts lie before the
\* end of every code book).
CodebookCuts == { 22, 200, QOI_HEADER_SIZE + 3 * Symbols - 1 }
\* Streams with the code book FlatTable, under which the body is the bytes of
\* the base stream, that end before the three pixels are coded: right after
\* the code book, and after the chunk RGB (2,1,0), whose pixel has hash 0.
NoBodyStream == SubSeq(FileStream(FlatTable), 1, Len(FileStream(FlatTable)) - 16)
ShortBodyStream == NoBodyStream \o << QOI_OP_RGB, 2, 1, 0 >> \o << 0, 0, 0, 0 >>
FileStreams ==
    { FileStream(t) : t \in CorruptTables \cup { FlatTable } }
    \cup { SubSeq(FileStream(FlatTable), 1, n) : n \in CodebookCuts }
    \cup { NoBodyStream, ShortBodyStream }

Desc(w, h, ch, cs) == [width |-> w, height |-> h, channels |-> ch, colorspace |-> cs]
GoodArgs == [data |-> "ok", desc |-> "ok", out_len |-> "ok"]

\* Calls the encoder has to reject: a null argument, or a descriptor outside
\* the accepted range.
BadCalls ==
    { [args |-> [GoodArgs EXCEPT ![k] = "null"], desc |-> Desc(1, 1, 4, 0)] :
        k \in {"data", "desc", "out_len"} }
    \cup { [args |-> GoodArgs, desc |-> d] :
             d \in { Desc(0, 1, 4, 0), Desc(1, 0, 4, 0), Desc(1, 1, 2, 0),
                     Desc(1, 1, 5, 0), Desc(1, 1, 4, 2), Desc(1, 1, 3, 255),
                     Desc(1, QOI_PIXELS_MAX, 4, 0), Desc(20000, 20000, 3, 1),
                     Desc(2, QOI_PIXELS_MAX \div 2, 4, 0) } }

\* --------------------------------------------------------------- variables

VARIABLES
    pc,       \* the point the program has reached
    efn,      \* the encoder that is called
    shift,    \* what the build made of (~0) << 32 when the code words were
              \* packed: "none" before
    args,     \* which arguments of the encode call are null
    desc,     \* the descriptor given to the encoder
    pixels,   \* the pixel buffer given to the encoder
    enc,      \* the frame of the encoder
    ret,      \* what the encoder returned: "none" yet, "NULL" on a rejected call,
              \* "NOMEM" (null as well) on a failed malloc, or "bytes"
    out_len,  \* *out_len
    stream,   \* the contents of the buffer the encoder returned, or of a file
    huff,     \* the frame of the Huffman part of qoi_huff_encode
    dfn,      \* the decoder that is called
    dargs,    \* the arguments of the decode call
    data,     \* the bytes given to the decoder
    ddesc,    \* the descriptor the decoder fills
    dec,      \* the frame of the decoder
    hdec,     \* the frame of qoi_huff_decode_buffer
    dret      \* what the decoder returned: "none" yet, "NULL", "NOMEM" or "pixels"

vars ==
    << pc, efn, shift, args, desc, pixels, enc, ret, out_len, stream, huff, dfn, dargs,
       data, ddesc, dec, hdec, dret >>
encVars == << efn, shift, args, desc, pixels, enc, ret, out_len, stream, huff >>
decVars == << dfn, dargs, data, ddesc, dec, hdec, dret >>

\* The caller's descriptor before the decode call.
BlankDesc == Desc(0, 0, 0, 0)

InitCommon ==
    /\ shift = "none"
    /\ enc = NoFrame
    /\ ret = "none"
    /\ out_len = 0
    /\ hdec = NoHuffDecode
    /\ dfn = "none"
    /\ dargs = [data |-> "ok", desc |-> "ok", channels |-> 0, size |-> 0]
    /\ data = <<>>
    /\ ddesc = BlankDesc
    /\ dec = NoDecode
    /\ dret = "none"

InitBase ==
    /\ pc = "encode"
    /\ efn = "qoi_encode"
    /\ \/ \E w \in 1..MaxPixels, h \in 1..MaxPixels, ch \in {3, 4}, cs \in {0, 1} :
            /\ w * h <= MaxPixels
            /\ \E img \in [1..(w * h) -> Palette] :
                  /\ desc = Desc(w, h, ch, cs)
                  /\ pixels = Flatten(img, ch)
            /\ args = GoodArgs
       \/ \E img \in LongImages, ch \in {3, 4} :
            /\ desc = Desc(Len(img), 1, ch, 0)
            /\ pixels = Flatten(img, ch)
            /\ args = GoodArgs
       \/ \E c \in BadCalls :
            /\ args = c.args
            /\ desc = c.desc
            /\ pixels = Flatten(<< StartPx >>, 4)
    /\ stream = <<>>
    /\ huff = NoHuff
    /\ InitCommon

\* The calls of qoi_huff_encode.
InitHuff ==
    /\ pc = "huff_encode"
    /\ efn = "qoi_huff_encode"
    /\ \/ \E c \in HuffCalls :
            /\ desc = Desc(Len(c.img), 1, c.channels, c.colorspace)
            /\ pixels = Flatten(c.img, c.channels)
            /\ args = GoodArgs
       \/ \E c \in BadCalls :
            /\ args = c.args
            /\ desc = c.desc
            /\ pixels = Flatten(<< StartPx >>, 4)
    /\ stream = <<>>
    /\ huff = NoHuff
    /\ InitCommon

\* The decode calls on a stream that the caller got from elsewhere.
InitFile ==
    /\ pc = "file"
    /\ efn = "none"
    /\ args = GoodArgs
    /\ desc = BlankDesc
    /\ pixels = <<>>
    /\ stream \in FileStreams
    /\ huff = NoHuff
    /\ InitCommon

Init == InitBase \/ InitHuff \/ InitFile

\* Streams with a valid base header and any body: a chunk region of up to
\* MaxBody bytes, one of each chunk kind among them, then eight bytes that are
\* the padding or anything else.
BodyBytes == { 0, 63, 106, 160, 194, 253, QOI_OP_RGB, QOI_OP_RGBA }
BodyTails ==
    { qoi_padding,
      [k \in 1..8 |-> 255],
      << 160, 201, QOI_OP_RGB, 203, 204, 205, 206, 207 >> }
BodySizes == { Desc(w, h, ch, 0) : w \in {1, 3}, h \in {1, 2}, ch \in {3, 4} }
BodyStreams ==
    { QOI_MAGIC \o Write32(d.width) \o Write32(d.height) \o << d.channels, d.colorspace >>
        \o region \o tail :
        d \in BodySizes,
        region \in UNION { [1..n -> BodyBytes] : n \in 0..MaxBody },
        tail \in BodyTails }
InitBody ==
    /\ pc = "file"
    /\ efn = "none"
    /\ args = GoodArgs
    /\ desc = BlankDesc
    /\ pixels = <<>>
    /\ stream \in BodyStreams
    /\ huff = NoHuff
    /\ InitCommon

\* The calls of qoi_encode on the images of two pixels.
InitChunk ==
    /\ pc = "encode"
    /\ efn = "qoi_encode"
    /\ args = GoodArgs
    /\ \E img \in PixelPairs, ch \in {3, 4} :
          /\ desc = Desc(2, 1, ch, 0)
          /\ pixels = Flatten(img, ch)
    /\ stream = <<>>
    /\ huff = NoHuff
    /\ InitCommon

\* Calls of insert_min_heap and pop_min_heap on a tree of HeapNodes nodes with
\* any counts from HeapCounts, starting from the empty heap.
HeapCounts == { 0, 1, 2 }
InitHeap ==
    /\ pc = "heap"
    /\ efn = "none"
    /\ args = GoodArgs
    /\ desc = BlankDesc
    /\ pixels = <<>>
    /\ stream = <<>>
    /\ \E counts \in [1..HeapNodes -> HeapCounts] :
          huff = [NoHuff EXCEPT !.tree = [k \in 1..HeapNodes |-> Leaf(counts[k])]]
    /\ InitCommon

\* The calls of qoi_huff_encode on the large images.
InitBig ==
    /\ pc = "huff_encode_whole"
    /\ efn = "qoi_huff_encode"
    /\ args = GoodArgs
    /\ \E c \in BigCalls :
          /\ desc = Desc(c.n, 1, 4, 0)
          /\ pixels = Flatten(BigImage(c.n, c.am), 4)
    /\ stream = <<>>
    /\ huff = NoHuff
    /\ InitCommon

\* ---------------------------------------------------------------- qoi_encode

\* Entry of qoi_encode: the checks, the malloc (which may fail) and the header.
EncodeCall ==
    /\ pc = "encode"
    /\ IF EncodeRejects(args, desc)
       THEN /\ ret' = "NULL"
            /\ pc' = "encode_done"
            /\ enc' = enc
       ELSE \/ /\ ret' = "NOMEM"
               /\ pc' = "encode_done"
               /\ enc' = enc
            \/ /\ enc' = EncodeStart(desc)
               /\ pc' = "encode_loop"
               /\ ret' = ret
    /\ UNCHANGED << args, desc, pixels, out_len, stream >>
    /\ UNCHANGED << efn, shift, huff >>
    /\ UNCHANGED decVars

\* One iteration of for (px_pos = 0; px_pos < px_len; px_pos += channels).
EncodeLoop ==
    /\ pc = "encode_loop"
    /\ enc.px_pos < enc.px_len
    /\ enc' = EncodeIter(enc, pixels)
    /\ UNCHANGED << pc, args, desc, pixels, ret, out_len, stream >>
    /\ UNCHANGED << efn, shift, huff >>
    /\ UNCHANGED decVars

\* After the loop: the padding, *out_len = p, return bytes.
EncodeReturn ==
    /\ pc = "encode_loop"
    /\ enc.px_pos >= enc.px_len
    /\ enc' = PutAll(enc, qoi_padding)
    /\ out_len' = enc'.p
    /\ stream' = enc'.bytes
    /\ ret' = "bytes"
    /\ pc' = "encode_done"
    /\ UNCHANGED << args, desc, pixels >>
    /\ UNCHANGED << efn, shift, huff >>
    /\ UNCHANGED decVars

\* ---------------------------------------------------------- qoi_huff_encode

\* Entry of qoi_huff_encode: the checks, the malloc (which may fail) and the
\* header, whose colorspace byte has the Huffman bit cleared.
HuffEncodeCall ==
    /\ pc = "huff_encode"
    /\ IF EncodeRejects(args, desc)
       THEN /\ ret' = "NULL"
            /\ pc' = "encode_done"
            /\ enc' = enc
       ELSE \/ /\ ret' = "NOMEM"
               /\ pc' = "encode_done"
               /\ enc' = enc
            \/ /\ enc' = HuffEncodeStart(desc)
               /\ pc' = "huff_encode_loop"
               /\ ret' = ret
    /\ UNCHANGED << efn, shift, huff, args, desc, pixels, out_len, stream >>
    /\ UNCHANGED decVars

\* One iteration of the pixel loop of qoi_huff_encode.
HuffEncodeLoop ==
    /\ pc = "huff_encode_loop"
    /\ enc.px_pos < enc.px_len
    /\ enc' = EncodeIter(enc, pixels)
    /\ UNCHANGED << pc, efn, shift, huff, args, desc, pixels, ret, out_len, stream >>
    /\ UNCHANGED decVars

\* After the loop: the padding, qoiByteCount = *out_len = p.
HuffEncodePadding ==
    /\ pc = "huff_encode_loop"
    /\ enc.px_pos >= enc.px_len
    /\ enc' = PutAll(enc, qoi_padding)
    /\ out_len' = enc'.p
    /\ huff' = [NoHuff EXCEPT !.qoiByteCount = enc'.p]
    /\ pc' = "huff_leaves"
    /\ UNCHANGED << efn, shift, args, desc, pixels, ret, stream >>
    /\ UNCHANGED decVars

\* The loop that makes the 256 leaves and puts them into the heap.
HuffInsertLeaves ==
    /\ pc = "huff_leaves"
    /\ huff' = HuffLeaves(huff, enc.histo, Symbols)
    /\ pc' = "huff_merge"
    /\ UNCHANGED << efn, shift, args, desc, pixels, enc, ret, out_len, stream >>
    /\ UNCHANGED decVars

\* One iteration of while (heapSize > 1).
HuffMerge ==
    /\ pc = "huff_merge"
    /\ Len(huff.minHeap) > 1
    /\ huff' = HuffMergeIter(huff)
    /\ UNCHANGED << pc, efn, shift, args, desc, pixels, enc, ret, out_len, stream >>
    /\ UNCHANGED decVars

\* make_encoded_word(tree, table, pop_min_heap(minHeap, &heapSize, tree), 0, 0)
HuffMakeTable ==
    /\ pc = "huff_merge"
    /\ Len(huff.minHeap) <= 1
    /\ \E sh \in ShiftModes :
          LET root == pop_min_heap(huff.minHeap, huff.tree)
          IN  huff' = [huff EXCEPT !.minHeap = root.heap,
                                   !.table = EncodingTable(huff.tree, root.item, sh)]
    /\ pc' = "huff_stats"
    /\ UNCHANGED << efn, shift, args, desc, pixels, enc, ret, out_len, stream >>
    /\ UNCHANGED decVars

\* The stats block.  A write outside stats[20] lands in the frame of
\* qoi_huff_encode: the build decides what it hits, so the call either goes on
\* unharmed or its result is undefined.
HuffStats ==
    /\ pc = "huff_stats"
    /\ \/ /\ pc' = "huff_size"
          /\ ret' = ret
       \/ /\ StatsOverflow(huff.table)
          /\ pc' = "encode_done"
          /\ ret' = "undefined"
    /\ UNCHANGED << efn, shift, huff, args, desc, pixels, enc, out_len, stream >>
    /\ UNCHANGED decVars

\* The expectedSize loop and the two tests that give the Huffman coding up and
\* return bytes.
HuffExpectedSize ==
    /\ pc = "huff_size"
    /\ LET expectedSize == ExpectedBits(huff.table) \div 8
       IN  IF TooLong(huff.table) \/ DontBother(expectedSize, enc.p)
           THEN /\ ret' = "bytes"
                /\ stream' = enc.bytes
                /\ pc' = "encode_done"
                /\ huff' = huff
           ELSE /\ huff' = [huff EXCEPT !.expectedSize = expectedSize]
                /\ pc' = "huff_alloc"
                /\ UNCHANGED << ret, stream >>
    /\ UNCHANGED << efn, shift, args, desc, pixels, enc, out_len >>
    /\ UNCHANGED decVars

\* malloc(expectedSize), which may fail, then the header and the code book.
HuffAlloc ==
    /\ pc = "huff_alloc"
    /\ \/ /\ ret' = "NOMEM"
          /\ pc' = "encode_done"
          /\ huff' = huff
       \/ /\ huff' = HuffAllocated(huff, desc, huff.expectedSize)
          /\ IF huff'.oob
             THEN pc' = "encode_done" /\ ret' = "undefined"
             ELSE pc' = "huff_pack" /\ ret' = ret
    /\ UNCHANGED << efn, shift, args, desc, pixels, enc, out_len, stream >>
    /\ UNCHANGED decVars

\* The loop that packs the code words into huffwords, then
\* huffwords[++wordIdx] = 0; *out_len = wordIdx * 4 + 4; return huffbytes.
HuffPack ==
    /\ pc = "huff_pack"
    /\ shift' \in ShiftModes
    /\ LET h == HuffPackLoop(huff, enc.bytes, shift', huff.qoiByteCount - QOI_HEADER_SIZE)
           wordIdx == h.wordIdx + 1
       IN  IF h.oob \/ 4 * wordIdx + 4 > Len(h.mem)
           THEN /\ huff' = [h EXCEPT !.oob = TRUE]
                /\ ret' = "undefined"
                /\ UNCHANGED << out_len, stream >>
           ELSE /\ huff' = [h EXCEPT !.wordIdx = wordIdx, !.mem = WriteWord(@, wordIdx, {})]
                /\ out_len' = wordIdx * 4 + 4
                /\ stream' = SubSeq(huff'.mem, 1, wordIdx * 4 + 4)
                /\ ret' = "huffbytes"
    /\ pc' = "encode_done"
    /\ UNCHANGED << efn, args, desc, pixels, enc >>
    /\ UNCHANGED decVars

\* The returns of a call of qoi_huff_encode with valid arguments after its
\* first malloc succeeded: what the call leaves in ret, *out_len, the returned
\* buffer and its locals.
HuffEncodeReturns(d, px) ==
    LET f == PutAll(EncodeIters(HuffEncodeStart(d), px, d.width * d.height), qoi_padding)
        h1 == HuffMerges(HuffLeaves([NoHuff EXCEPT !.qoiByteCount = f.p], f.histo, Symbols),
                         Symbols)
        root == pop_min_heap(h1.minHeap, h1.tree)
        Tabled(sh) == [h1 EXCEPT !.minHeap = root.heap,
                                 !.table = EncodingTable(h1.tree, root.item, sh)]
        Return(r, h, n, bytes, sh) ==
            [ret |-> r, enc |-> f, huff |-> h, out_len |-> n, stream |-> bytes, shift |-> sh]
        Packed(h3, sh) ==
            LET h4 == HuffAllocated(h3, d, h3.expectedSize)
                h5 == HuffPackLoop(h4, f.bytes, sh, f.p - QOI_HEADER_SIZE)
                wordIdx == h5.wordIdx + 1
                mem == WriteWord(h5.mem, wordIdx, {})
            IN  IF h5.oob \/ 4 * wordIdx + 4 > Len(h5.mem)
                THEN Return("undefined", [h5 EXCEPT !.oob = TRUE], f.p, <<>>, sh)
                ELSE Return("huffbytes", [h5 EXCEPT !.wordIdx = wordIdx, !.mem = mem],
                            wordIdx * 4 + 4, SubSeq(mem, 1, wordIdx * 4 + 4), sh)
        After(h2) ==
            LET expectedSize == ExpectedBits(h2.table) \div 8
                h3 == [h2 EXCEPT !.expectedSize = expectedSize]
            IN  (IF StatsOverflow(h2.table)
                 THEN { Return("undefined", h2, f.p, <<>>, "none") } ELSE {})
                \cup (IF TooLong(h2.table) \/ DontBother(expectedSize, f.p)
                      THEN { Return("bytes", h2, f.p, f.bytes, "none") }
                      ELSE { Return("NOMEM", h3, f.p, <<>>, "none") }
                           \cup { Packed(h3, sh) : sh \in ShiftModes })
    IN  UNION { After(h2) : h2 \in { Tabled(sh) : sh \in ShiftModes } }

\* A call of insert_min_heap with a node of the tree, the heap not being full.
HeapInsert ==
    /\ pc = "heap"
    /\ Len(huff.minHeap) < MaxHeap
    /\ \E item \in 0..(HeapNodes - 1) :
          huff' = [huff EXCEPT !.minHeap = insert_min_heap(@, huff.tree, item),
                               !.asserted = @ \/ Len(huff.minHeap) + 1 > Symbols]
    /\ UNCHANGED << pc, efn, shift, args, desc, pixels, enc, ret, out_len, stream >>
    /\ UNCHANGED decVars

\* A call of pop_min_heap on a heap that is not empty.
HeapPop ==
    /\ pc = "heap"
    /\ Len(huff.minHeap) > 0
    /\ huff' = [huff EXCEPT !.minHeap = pop_min_heap(@, huff.tree).heap]
    /\ UNCHANGED << pc, efn, shift, args, desc, pixels, enc, ret, out_len, stream >>
    /\ UNCHANGED decVars

\* A call of qoi_huff_encode from its entry to its return, in one step.
HuffEncodeWhole ==
    /\ pc = "huff_encode_whole"
    /\ pc' = "returned"
    /\ IF EncodeRejects(args, desc)
       THEN /\ ret' = "NULL"
            /\ UNCHANGED << shift, enc, out_len, stream, huff >>
       ELSE \/ /\ ret' = "NOMEM"
               /\ UNCHANGED << shift, enc, out_len, stream, huff >>
            \/ \E r \in HuffEncodeReturns(desc, pixels) :
                  /\ ret' = r.ret
                  /\ enc' = r.enc
                  /\ huff' = r.huff
                  /\ out_len' = r.out_len
                  /\ stream' = r.stream
                  /\ shift' = r.shift
    /\ UNCHANGED << efn, args, desc, pixels >>
    /\ UNCHANGED decVars

\* ------------------------------------------------------------ decode calls

\* The stream with its header overwritten from offset at.
Patch(bytes, at, vs) ==
    [ i \in 1..Len(bytes) |-> IF i > at /\ i <= at + Len(vs) THEN vs[i - at] ELSE bytes[i] ]

\* Headers a decoder has to reject, made from an encoded stream.
BadHeaders(bytes) ==
    { Patch(bytes, 0, << 0 >>),
      Patch(bytes, 4, Write32(0)),
      Patch(bytes, 8, Write32(0)),
      Patch(bytes, 12, << 2 >>),
      Patch(bytes, 12, << 5 >>),
      Patch(bytes, 13, << 2 >>),
      Patch(bytes, 4, Write32(20000) \o Write32(20000)) }

DecodeArgs(bytes, ch) ==
    [data |-> "ok", desc |-> "ok", channels |-> ch, size |-> Len(bytes)]

\* The decode calls made on an encoded stream: the stream as it is, with each
\* accepted channel count; and calls that have to fail.
DecodeRequests(bytes) ==
    { [data |-> bytes, dargs |-> DecodeArgs(bytes, ch)] : ch \in {0, 3, 4} }
    \cup { [data |-> bytes, dargs |-> DecodeArgs(bytes, 5)] }
    \cup { [data |-> bytes, dargs |-> [DecodeArgs(bytes, 0) EXCEPT ![k] = "null"]] :
             k \in {"data", "desc"} }
    \cup { [data |-> b, dargs |-> DecodeArgs(b, 0)] : b \in BadHeaders(bytes) }
    \cup { [data |-> SubSeq(bytes, 1, 21), dargs |-> DecodeArgs(SubSeq(bytes, 1, 21), 0)] }

\* The decode calls made on a Huffman stream: the stream as it is, and the
\* stream cut at 22 bytes (inside its code book) and inside its body.
HuffRequests(bytes) ==
    { [data |-> bytes, dargs |-> DecodeArgs(bytes, ch)] : ch \in {0, 3} }
    \cup { [data |-> SubSeq(bytes, 1, n), dargs |-> DecodeArgs(SubSeq(bytes, 1, n), 0)] :
             n \in { 22, Len(bytes) - 8, Len(bytes) - 60 } }

\* The caller hands the stream the encoder returned, or a damaged one, to a
\* decoder. Long images are only decoded as they are.  The frame of the
\* encoder's Huffman part is gone by then.
DecodeCall ==
    /\ \/ pc = "encode_done" /\ ret \in {"bytes", "huffbytes"}
       \/ pc = "file"
    /\ \E fn \in {"qoi_decode", "qoi_huff_decode"} :
       \E r \in IF pc = "file" THEN { [data |-> stream, dargs |-> DecodeArgs(stream, 0)] }
                ELSE IF ret = "huffbytes" THEN HuffRequests(stream)
                ELSE IF desc.width * desc.height <= MaxPixels
                THEN DecodeRequests(stream)
                ELSE { [data |-> stream, dargs |-> DecodeArgs(stream, 0)] } :
          /\ dfn' = fn
          /\ data' = r.data
          /\ dargs' = r.dargs
    /\ pc' = "decode"
    /\ huff' = NoHuff
    /\ UNCHANGED << ddesc, dec, hdec, dret >>
    /\ UNCHANGED << efn, shift, args, desc, pixels, enc, ret, out_len, stream >>

\* Entry of qoi_decode, up to the head of the pixel loop.
DecodeEnter ==
    /\ pc = "decode"
    /\ dfn = "qoi_decode"
    /\ IF DecodeArgsRejected(dargs)
       THEN /\ dret' = "NULL"
            /\ pc' = "decode_done"
            /\ UNCHANGED << ddesc, dec >>
       ELSE LET d == HeaderDesc(data)
                channels == IF dargs.channels = 0 THEN d.channels ELSE dargs.channels
            IN  /\ ddesc' = d
                /\ IF DecodeRejects(SubSeq(data, 1, 4), d)
                   THEN /\ dret' = "NULL"
                        /\ pc' = "decode_done"
                        /\ dec' = dec
                   ELSE \/ /\ dret' = "NOMEM"
                           /\ pc' = "decode_done"
                           /\ dec' = dec
                        \/ /\ dec' = DecodeStart(d, channels, dargs.size)
                           /\ pc' = "decode_loop"
                           /\ dret' = dret
    /\ UNCHANGED << dfn, dargs, data >>
    /\ UNCHANGED hdec
    /\ UNCHANGED encVars

\* One iteration of the pixel loop of qoi_decode or of qoi_decode_buffer.
DecodeLoop ==
    /\ pc = "decode_loop"
    /\ dec.px_pos < dec.px_len
    /\ dec' = DecodeIter(dec, data)
    /\ UNCHANGED << pc, dfn, dargs, data, ddesc, dret >>
    /\ UNCHANGED hdec
    /\ UNCHANGED encVars

\* return pixels
DecodeReturn ==
    /\ pc = "decode_loop"
    /\ dec.px_pos >= dec.px_len
    /\ dret' = "pixels"
    /\ pc' = "decode_done"
    /\ UNCHANGED << dfn, dargs, data, ddesc, dec >>
    /\ UNCHANGED hdec
    /\ UNCHANGED encVars

\* Entry of qoi_huff_decode for a stream whose Huffman bit is clear: the
\* header, then qoi_decode_buffer.
HuffDecodeEnter ==
    /\ pc = "decode"
    /\ dfn = "qoi_huff_decode"
    /\ IF DecodeArgsRejected(dargs)
       THEN /\ dret' = "NULL"
            /\ pc' = "decode_done"
            /\ UNCHANGED << ddesc, dec >>
       ELSE LET h == HeaderDesc(data)
                isHuffEncoded == BitAnd(h.colorspace, QOI_HUFF_ENCODED_BIT)
                d == [h EXCEPT !.colorspace = BitAnd(@, 255 - QOI_HUFF_ENCODED_BIT)]
                channels == IF dargs.channels = 0 THEN d.channels ELSE dargs.channels
            IN  /\ ddesc' = d
                /\ IF DecodeRejects(SubSeq(data, 1, 4), d)
                   THEN /\ dret' = "NULL"
                        /\ pc' = "decode_done"
                        /\ dec' = dec
                   ELSE \/ /\ dret' = "NOMEM"
                           /\ pc' = "decode_done"
                           /\ dec' = dec
                        \/ /\ dec' = DecodeStart(d, channels, dargs.size)
                           /\ pc' = IF isHuffEncoded = 0 THEN "decode_loop"
                                    ELSE "huff_codebook"
                           /\ dret' = dret
    /\ hdec' = HuffDecodeStart
    /\ UNCHANGED << dfn, dargs, data >>
    /\ UNCHANGED encVars

\* The code book loop of qoi_huff_decode_buffer.  On return -1
\* qoi_huff_decode, which does not look at the result, returns pixels.  A
\* failed assert aborts a build that has asserts; an access outside an array
\* or to uninitialised memory leaves the result undefined.
HuffReadCodebook ==
    /\ pc = "huff_codebook"
    /\ LET r == HuffReadEntries([f |-> dec, h |-> hdec], data, dargs.size, Symbols)
       IN  /\ dec' = r.f
           /\ \/ /\ r.h.asserted
                 /\ hdec' = r.h
                 /\ dret' = "abort"
                 /\ pc' = "decode_done"
              \/ /\ r.h.status = -1
                 /\ hdec' = r.h
                 /\ dret' = "pixels"
                 /\ pc' = "decode_done"
              \/ /\ r.h.fault # "none"
                 /\ hdec' = r.h
                 /\ dret' = "undefined"
                 /\ pc' = "decode_done"
              \/ /\ r.h.status = 0 /\ r.h.fault = "none"
                 /\ hdec' = HuffWordsStart(r.h, r.f.p)
                 /\ dret' = dret
                 /\ pc' = "huff_pixels"
    /\ UNCHANGED << dfn, dargs, data, ddesc >>
    /\ UNCHANGED encVars

\* One iteration of the pixel loop of qoi_huff_decode_buffer.
HuffDecodeLoop ==
    /\ pc = "huff_pixels"
    /\ dec.px_pos < dec.px_len
    /\ LET r == HuffDecodeIter(dec, hdec, data, dargs.size)
       IN  /\ dec' = r.f
           /\ hdec' = r.h
           /\ \/ /\ r.h.asserted /\ ~hdec.asserted
                 /\ dret' = "abort"
                 /\ pc' = "decode_done"
              \/ /\ dret' = IF r.h.fault # "none" THEN "undefined" ELSE dret
                 /\ pc' = IF r.h.fault # "none" THEN "decode_done" ELSE pc
    /\ UNCHANGED << dfn, dargs, data, ddesc >>
    /\ UNCHANGED encVars

\* qoi_huff_decode_buffer returns 0 and qoi_huff_decode returns pixels.
HuffDecodeReturn ==
    /\ pc = "huff_pixels"
    /\ dec.px_pos >= dec.px_len
    /\ dret' = "pixels"
    /\ pc' = "decode_done"
    /\ UNCHANGED << dfn, dargs, data, ddesc, dec, hdec >>
    /\ UNCHANGED encVars

Next ==
    \/ EncodeCall
    \/ EncodeLoop
    \/ EncodeReturn
    \/ HuffEncodeCall
    \/ HuffEncodeLoop
    \/ HuffEncodePadding
    \/ HuffInsertLeaves
    \/ HuffMerge
    \/ HuffMakeTable
    \/ HuffStats
    \/ HuffExpectedSize
    \/ HuffAlloc
    \/ HuffPack
    \/ DecodeCall
    \/ DecodeEnter
    \/ DecodeLoop
    \/ DecodeReturn
    \/ HuffDecodeEnter
    \/ HuffReadCodebook
    \/ HuffDecodeLoop
    \/ HuffDecodeReturn

Spec == Init /\ [][Next]_vars

\* The calls of qoi_huff_encode, each followed by a decode call, and the
\* decode calls on the streams from elsewhere.
NextHuff ==
    \/ HuffEncodeCall
    \/ HuffEncodeLoop
    \/ HuffEncodePadding
    \/ HuffInsertLeaves
    \/ HuffMerge
    \/ HuffMakeTable
    \/ HuffStats
    \/ HuffExpectedSize
    \/ HuffAlloc
    \/ HuffPack
    \/ DecodeCall
    \/ DecodeEnter
    \/ DecodeLoop
    \/ DecodeReturn
    \/ HuffDecodeEnter
    \/ HuffReadCodebook
    \/ HuffDecodeLoop
    \/ HuffDecodeReturn

SpecHuff == (InitHuff \/ InitFile) /\ [][NextHuff]_vars

\* The calls of qoi_encode on the images of two pixels.
NextChunk == EncodeCall \/ EncodeLoop \/ EncodeReturn
SpecChunk == InitChunk /\ [][NextChunk]_vars

\* The base decoder, called as qoi_decode and through qoi_huff_decode, on the
\* streams with any body.
NextBody ==
    \/ DecodeCall
    \/ DecodeEnter
    \/ DecodeLoop
    \/ DecodeReturn
    \/ HuffDecodeEnter
SpecBody == InitBody /\ [][NextBody]_vars

\* The calls of qoi_huff_encode, and the heap calls on their own.
NextHeap == NextHuff \/ HeapInsert \/ HeapPop
SpecHeap == (InitHuff \/ InitHeap) /\ [][NextHeap]_vars

\* The same with the calls of qoi_huff_encode on the large images.
NextSize == NextHuff \/ HuffEncodeWhole
SpecSize == (InitHuff \/ InitFile \/ InitBig) /\ [][NextSize]_vars

\* ================================================================== claims

Max(S) == CHOOSE x \in S : \A y \in S : y <= x

\* The decoder was given the stream exactly as the encoder returned it.
Intact == data = stream /\ dargs.data = "ok" /\ dargs.desc = "ok"

\* C1: qoi_decode, asked for 0 channels, of the stream qoi_encode made of the
\* pixel buffer P under descriptor D returns P and fills the descriptor with D.
C1_RoundTrip ==
    (pc = "decode_done" /\ efn = "qoi_encode" /\ dfn = "qoi_decode" /\ Intact
        /\ dargs.channels = 0 /\ dret # "NOMEM")
    => (dret = "pixels" /\ dec.pixels = pixels /\ ddesc = desc)

\* A round trip of an image longer than two full runs, in four channels.
C1_Witness ==
    /\ pc = "decode_done" /\ efn = "qoi_encode" /\ dfn = "qoi_decode" /\ Intact
    /\ dargs.channels = 0
    /\ dret = "pixels"
    /\ desc.channels = 4
    /\ Len(pixels) > 4 * 2 * MaxRun
    /\ \E i \in 1..Len(enc.chunks) : enc.chunks[i].op = "LUMA"

\* The pixels the chunks cover: a RUN chunk its run length, any other one.
RECURSIVE Covered(_)
Covered(cs) ==
    IF cs = <<>> THEN 0
    ELSE (IF Head(cs).op = "RUN" THEN Head(cs).bytes[1] - QOI_OP_RUN + 1 ELSE 1)
            + Covered(Tail(cs))

\* C7: at the head of every iteration of the pixel loop run is in 0..61 (so it
\* never exceeds 62 inside one); the pixels of the pending run are exactly those
\* no chunk covers yet, so run is 0 again once its RUN chunk is written; and
\* every RUN chunk is one byte in 0xC0..0xFD, never the tag of RGB or RGBA.
C7_RunCounter ==
    /\ enc.run \in 0..(MaxRun - 1)
    /\ enc.channels # 0 => Covered(enc.chunks) + enc.run = enc.px_pos \div enc.channels
    /\ \A i \in 1..Len(enc.chunks) :
          enc.chunks[i].op = "RUN"
          => /\ Len(enc.chunks[i].bytes) = 1
             /\ enc.chunks[i].bytes[1] \in 192..253
             /\ enc.chunks[i].bytes[1] \notin {QOI_OP_RGB, QOI_OP_RGBA}

\* A run of 62 has been flushed and the next run has begun.
C7_Witness ==
    /\ \E i \in 1..Len(enc.chunks) :
          enc.chunks[i].op = "RUN" /\ enc.chunks[i].bytes[1] = 253
    /\ enc.run > 0

\* C8: no two consecutive chunks are INDEX chunks with the same index, hence
\* there are never 7 consecutive INDEX chunks to index 0.
C8_NoRepeatedIndex ==
    /\ \A i \in 1..(Len(enc.chunks) - 1) :
          (enc.chunks[i].op = "INDEX" /\ enc.chunks[i + 1].op = "INDEX")
          => enc.chunks[i].bytes # enc.chunks[i + 1].bytes
    /\ \A i \in 1..(Len(enc.chunks) - 6) :
          ~ \A k \in 0..6 : enc.chunks[i + k].bytes = << QOI_OP_INDEX >>

\* A pixel found in the index was followed by the same pixel: the chunks are
\* INDEX to index 0 and then a RUN, not a second INDEX.
C8_Witness ==
    \E i \in 1..(Len(enc.chunks) - 1) :
       /\ enc.chunks[i].bytes = << QOI_OP_INDEX >>
       /\ enc.chunks[i + 1].op = "RUN"
       /\ enc.run = 0

\* The encoder's index array after it processed pixel k (from 0).
EncIndexAt(k) ==
    [ i \in 0..(IndexSize - 1) |->
        LET S == { j \in 1..Len(enc.writes) :
                     enc.writes[j].n <= k /\ enc.writes[j].pos = i }
        IN  IF S = {} THEN ZeroPx ELSE enc.writes[Max(S)].px ]

\* The chunks the encoder had emitted once it had processed pixel k.
EmittedBy(k) == Cardinality({ j \in 1..Len(enc.chunks) : enc.chunks[j].n <= k })

\* The chunks the decoder has consumed when its cursor is at p.
RECURSIVE ConsumedAt(_, _)
ConsumedAt(cs, len) ==
    IF cs = <<>> \/ Len(Head(cs).bytes) > len THEN 0
    ELSE 1 + ConsumedAt(Tail(cs), len - Len(Head(cs).bytes))

\* C9: whenever the decoder has consumed exactly the chunks the encoder had
\* emitted after processing some pixel k, its index array equals the
\* encoder's index array after pixel k.
C9_SameIndex ==
    (pc \in {"decode_loop", "decode_done"} /\ Intact /\ dec.channels # 0)
    => \A k \in 0..(desc.width * desc.height - 1) :
          EmittedBy(k) = ConsumedAt(enc.chunks, dec.p - QOI_HEADER_SIZE)
          => dec.index = EncIndexAt(k)

\* C4: a decoder that returns null has left the caller's descriptor as it was.
C4_RejectLeavesDesc ==
    (pc = "decode_done" /\ dret = "NULL") => ddesc = BlankDesc

C3_EncodeValidation ==
    ret # "none" =>
       IF EncodeRejects(args, desc)
       THEN ret = "NULL" /\ stream = <<>> /\ out_len = 0
       ELSE ret \in {"bytes", "huffbytes", "NOMEM"}

\* C5: a Huffman stream that ends inside its code book is reported as null.
C5_TruncatedCodebook ==
    (pc = "decode_done" /\ dfn = "qoi_huff_decode" /\ hdec.status = -1) => dret = "NULL"

\* C6: whatever the code book and the body, qoi_huff_decode never indexes
\* the lookup table at 2048 or above, never uses a tree node outside 0..511
\* and never reads a node it has not written.
C6_NoOutOfBounds == dfn = "qoi_huff_decode" => hdec.fault = "none"

\* C10: when a code word is longer than 32 bits, qoi_huff_encode returns the
\* stream qoi_encode returns for the same image, and its length in out_len.
C10_LongCodeAbandons ==
    (pc = "encode_done" /\ efn = "qoi_huff_encode" /\ huff.table # <<>>
        /\ TooLong(huff.table))
    => /\ ret = "bytes"
       /\ stream = qoi_encode(pixels, desc)
       /\ out_len = Len(stream)
       /\ BitAnd(At(stream, QOI_HEADER_SIZE - 1), QOI_HUFF_ENCODED_BIT) = 0

\* C11: a call of qoi_huff_encode whose code words all have at most 32 bits
\* returns the base stream exactly when the estimated size is more than 97% of
\* the length of the base stream and the base stream is longer than 10240
\* bytes; otherwise it returns a stream in Huffman mode.
C11_AbandonRule ==
    (pc \in {"encode_done", "returned"} /\ efn = "qoi_huff_encode"
        /\ huff.table # <<>> /\ ~TooLong(huff.table))
    => LET estimate == ExpectedBits(huff.table) \div 8
       IN  IF 100 * estimate > 97 * enc.p /\ enc.p > 10 * 1024
           THEN ret = "bytes" /\ stream = enc.bytes
           ELSE ret \in {"huffbytes", "NOMEM"}

\* C12: a stream qoi_huff_encode returns in Huffman mode has the header of the
\* base stream with bit 7 of the colorspace byte set, and a base stream it
\* returns has that bit clear; qoi_huff_decode reads the code book exactly when
\* the bit is set, and the colorspace it stores in desc is the byte without
\* the bit, which is the colorspace the encoder was given.
C12_HuffmanBit ==
    /\ (pc = "encode_done" /\ efn = "qoi_huff_encode" /\ ret = "huffbytes")
       => /\ SubSeq(stream, 1, QOI_HEADER_SIZE - 1)
               = SubSeq(qoi_encode(pixels, desc), 1, QOI_HEADER_SIZE - 1)
          /\ At(stream, QOI_HEADER_SIZE - 1) = desc.colorspace + QOI_HUFF_ENCODED_BIT
    /\ (pc = "encode_done" /\ efn = "qoi_huff_encode" /\ ret = "bytes")
       => /\ SubSeq(stream, 1, QOI_HEADER_SIZE) = SubSeq(qoi_encode(pixels, desc), 1,
                                                         QOI_HEADER_SIZE)
          /\ At(stream, QOI_HEADER_SIZE - 1) = desc.colorspace
    /\ (dfn = "qoi_huff_decode" /\ pc \in {"huff_codebook", "huff_pixels"})
       => BitAnd(At(data, QOI_HEADER_SIZE - 1), QOI_HUFF_ENCODED_BIT) # 0
    /\ (dfn = "qoi_huff_decode" /\ pc = "decode_loop")
       => BitAnd(At(data, QOI_HEADER_SIZE - 1), QOI_HUFF_ENCODED_BIT) = 0
    /\ (dfn = "qoi_huff_decode" /\ pc \in {"decode_loop", "huff_codebook", "huff_pixels",
                                            "decode_done"}
           /\ ~DecodeArgsRejected(dargs))
       => /\ ddesc.colorspace = At(data, QOI_HEADER_SIZE - 1) % QOI_HUFF_ENCODED_BIT
          /\ (efn = "qoi_huff_encode" /\ Intact) => ddesc.colorspace = desc.colorspace
\* a Huffman stream of an image with colorspace 1 has been decoded
C12_Witness ==
    /\ pc = "decode_done" /\ efn = "qoi_huff_encode" /\ ret = "huffbytes"
    /\ dfn = "qoi_huff_decode" /\ Intact /\ dret = "pixels"
    /\ desc.colorspace = 1 /\ ddesc.colorspace = 1
    /\ At(data, QOI_HEADER_SIZE - 1) = 1 + QOI_HUFF_ENCODED_BIT

\* The call of qoi_encode on the 2x1 RGBA image [(10,20,30,40), (10,20,30,40)]
\* has returned.
TwoEqualPixels ==
    /\ pc = "encode_done" /\ efn = "qoi_encode" /\ ret = "bytes"
    /\ desc.width = 2 /\ desc.height = 1 /\ desc.channels = 4
    /\ pixels = Flatten(<< Rgba(10, 20, 30, 40), Rgba(10, 20, 30, 40) >>, 4)

\* C13 as stated: the 2x1 RGBA image [(10,20,30,40), (10,20,30,40)] is encoded
\* as an RGBA chunk and, for the second pixel, an INDEX chunk with the index
\* hash(10,20,30,40) mod 64.
C13_RepeatIsIndex ==
    TwoEqualPixels
    => /\ Len(enc.chunks) = 2
       /\ enc.chunks[1].op = "RGBA"
       /\ enc.chunks[2].op = "INDEX"
       /\ enc.chunks[2].bytes
            = << BitOr(QOI_OP_INDEX, QOI_COLOR_HASH(Rgba(10, 20, 30, 40)) % IndexSize) >>

\* C13: the 2x1 RGBA image [(10,20,30,40), (10,20,30,40)] is encoded as an
\* RGBA chunk and, for the second pixel, which equals the previous pixel, a
\* RUN chunk of run length 1 (the byte 0xC0).
C13_RepeatIsRun ==
    TwoEqualPixels
    => /\ Len(enc.chunks) = 2
       /\ enc.chunks[1] = [op |-> "RGBA", bytes |-> << QOI_OP_RGBA, 10, 20, 30, 40 >>, n |-> 0]
       /\ enc.chunks[2] = [op |-> "RUN", bytes |-> << QOI_OP_RUN >>, n |-> 1]
       /\ stream = SubSeq(stream, 1, QOI_HEADER_SIZE)
                     \o << QOI_OP_RGBA, 10, 20, 30, 40, QOI_OP_RUN >> \o qoi_padding
\* that call has returned, with the pixel in the index at its hash
C13_Witness ==
    /\ TwoEqualPixels
    /\ enc.index[QOI_COLOR_HASH(Rgba(10, 20, 30, 40)) % IndexSize] = Rgba(10, 20, 30, 40)

\* The bytes of a sequence of chunks.
RECURSIVE ChunkBytes(_)
ChunkBytes(cs) == IF cs = <<>> THEN <<>> ELSE Head(cs).bytes \o ChunkBytes(Tail(cs))

\* C14: after every iteration of the pixel loop and after the padding the
\* cursor p is at most max_size = width * height * (channels + 1) + 14 + 8, so
\* every store bytes[p++] is inside the buffer; out_len is at most that size
\* and the stream is the 14 header bytes, the chunks, and 0,0,0,0,0,0,0,1.
C14_CursorInBuffer ==
    /\ enc.channels # 0
       => /\ enc.max_size = desc.width * desc.height * (desc.channels + 1)
                              + QOI_HEADER_SIZE + Len(qoi_padding)
          /\ enc.p = Len(enc.bytes)
          /\ enc.p <= enc.max_size
          /\ pc \in {"encode_loop", "huff_encode_loop"}
             => enc.p + Len(qoi_padding) <= enc.max_size
    /\ (pc = "encode_done" /\ efn = "qoi_encode" /\ ret = "bytes")
       => /\ out_len = Len(stream)
          /\ out_len <= enc.max_size
          /\ stream = QOI_MAGIC \o Write32(desc.width) \o Write32(desc.height)
                        \o << desc.channels, desc.colorspace >>
                        \o ChunkBytes(enc.chunks) \o << 0, 0, 0, 0, 0, 0, 0, 1 >>
\* an image of two pixels has filled the buffer to its last byte, and an image
\* has flushed a run before a chunk that is no run
C14_Witness ==
    /\ pc = "encode_done" /\ efn = "qoi_encode" /\ ret = "bytes"
    /\ \/ desc.width * desc.height = 2 /\ out_len = enc.max_size
       \/ \E i \in 1..(Len(enc.chunks) - 1) :
             /\ enc.chunks[i].op = "RUN" /\ enc.chunks[i + 1].op = "RGBA"
             /\ enc.chunks[i].n = enc.chunks[i + 1].n

\* Pixel k (from 0) of the image as the encoder sees it, and the start value
\* before the first pixel; a 3-channel image has alpha 255 throughout.
PixelAt(k) ==
    IF k < 0 THEN StartPx
    ELSE LET at == k * desc.channels
         IN  Rgba(At(pixels, at), At(pixels, at + 1), At(pixels, at + 2),
                  IF desc.channels = 4 THEN At(pixels, at + 3) ELSE 255)
\* The chunk kind the rule gives for pixel px after prev.
KindByRule(px, prev) ==
    LET vr == SChar(px.r - prev.r)
        vg == SChar(px.g - prev.g)
        vb == SChar(px.b - prev.b)
        vgr == vr - vg
        vgb == vb - vg
    IN  IF px.a # prev.a THEN "RGBA"
        ELSE IF vr \in -2..1 /\ vg \in -2..1 /\ vb \in -2..1 THEN "DIFF"
        ELSE IF vg \in -32..31 /\ vgr \in -8..7 /\ vgb \in -8..7 THEN "LUMA"
        ELSE "RGB"
KindSize(op) ==
    IF op = "RGBA" THEN 5 ELSE IF op = "DIFF" THEN 1 ELSE IF op = "LUMA" THEN 2 ELSE 4

\* C15: for a pixel that differs from the previous pixel and is not in the
\* index, the chunk is RGBA (5 bytes) iff alpha differs; otherwise DIFF
\* (1 byte) iff vr, vg, vb are in -2..1; otherwise LUMA (2 bytes) iff vg is in
\* -32..31 and vr - vg, vb - vg are in -8..7; otherwise RGB (4 bytes).  A
\* 3-channel image has no RGBA chunk.
C15_ChunkKind ==
    /\ \A j \in 1..Len(enc.writes) :
          LET n == enc.writes[j].n
              C == { i \in 1..Len(enc.chunks) :
                       enc.chunks[i].n = n /\ enc.chunks[i].op # "RUN" }
          IN  /\ Cardinality(C) = 1
              /\ \A i \in C :
                    /\ enc.chunks[i].op = KindByRule(PixelAt(n), PixelAt(n - 1))
                    /\ Len(enc.chunks[i].bytes) = KindSize(enc.chunks[i].op)
                    /\ enc.chunks[i].bytes[1] \div 64
                         = IF enc.chunks[i].op = "DIFF" THEN 1
                           ELSE IF enc.chunks[i].op = "LUMA" THEN 2 ELSE 3
    /\ desc.channels = 3 => \A i \in 1..Len(enc.chunks) : enc.chunks[i].op # "RGBA"
\* the second pixel was encoded as LUMA with vg = -32, vr - vg = 7 and
\* vb - vg = -8, the first pixel having another alpha than the start value
C15_Witness ==
    /\ pc = "encode_done" /\ ret = "bytes" /\ Len(enc.chunks) = 2
    /\ enc.chunks[1].op = "RGBA"
    /\ enc.chunks[2].op = "LUMA"
    /\ enc.chunks[2].bytes = << QOI_OP_LUMA, 15 * 16 >>

\* C16: in the code book of a stream qoi_huff_encode returns in Huffman mode
\* (after a stats loop that stayed inside stats[]), a byte value that does not
\* occur in the body of the base stream has code length 0 and the two bytes 0, 0
\* as its bits; only byte values that occur have a length other than 0.
C16_UnusedHaveLengthZero ==
    (pc = "encode_done" /\ efn = "qoi_huff_encode" /\ ret = "huffbytes"
        /\ ~StatsOverflow(huff.table))
    => \A b \in 0..(Symbols - 1) :
          enc.histo[b] = 0
          => /\ huff.table[b].len = 0
             /\ Codebook(huff.table, b, b) = << 0, 0, 0 >>

\* C17: an iteration of the pixel loop of qoi_huff_decode_buffer that asks for
\* a chunk when the words of the body are used up (huff_decode_next_byte
\* returns without reading) leaves the zero pixel (0,0,0,0) at its position.
C17_ZeroFill ==
    [][ (/\ pc = "huff_pixels" /\ dfn = "qoi_huff_decode"
         /\ dec.run = 0
         /\ hdec.wordIdx + 1 >= dargs.size \div 4
         /\ dec'.px_pos = dec.px_pos + dec.channels
         /\ hdec'.fault = "none")
        => SubSeq(dec'.pixels, dec.px_pos + 1, dec.px_pos + dec.channels)
             = [k \in 1..dec.channels |-> 0] ]_vars

\* The count of the node that heap entry idx (from 0) names.
CountAt(heap, tree, idx) == At(tree, At(heap, idx)).count
\* Every entry's count is at least its parent's.
HeapOrdered(heap, tree) ==
    \A idx \in 1..(Len(heap) - 1) :
       CountAt(heap, tree, idx) >= CountAt(heap, tree, (idx - 1) \div 2)
\* pop_min_heap returns an entry of least count and leaves the other entries.
PopsMinimum(heap, tree) ==
    LET r == pop_min_heap(heap, tree)
    IN  /\ \A idx \in 0..(Len(heap) - 1) :
              At(tree, r.item).count <= CountAt(heap, tree, idx)
        /\ Len(r.heap) = Len(heap) - 1
        /\ HeapOrdered(r.heap, tree)

\* C18: after any calls of insert_min_heap and pop_min_heap every heap entry's
\* count is at least its parent's and pop_min_heap returns a node of least
\* count; in the tree build the first popped node's count is never above the
\* second's (inv is not printed), no size assertion fails, and the loop ends
\* after 255 merges with one root.
C18_MinHeap ==
    /\ huff.tree # <<>>
       => /\ HeapOrdered(huff.minHeap, huff.tree)
          /\ huff.minHeap # <<>> => PopsMinimum(huff.minHeap, huff.tree)
    /\ ~huff.inv
    /\ ~huff.asserted
    /\ pc = "huff_merge"
       => Len(huff.tree) + Len(huff.minHeap) = 2 * Symbols
    /\ pc = "huff_stats"
       => /\ Len(huff.tree) = 2 * Symbols - 1
          /\ huff.minHeap = <<>>
\* the last merge of a tree build has left one root in the heap
C18_Witness ==
    /\ pc = "huff_merge"
    /\ Len(huff.minHeap) = 1
    /\ Len(huff.tree) = 2 * Symbols - 1
    /\ At(huff.minHeap, 0) = 2 * Symbols - 2

\* qoi_huff_decode is decoding, or has decoded, a whole stream that
\* qoi_huff_encode returned in Huffman mode.
DecodesHuffmanStream ==
    /\ efn = "qoi_huff_encode" /\ ret = "huffbytes"
    /\ dfn = "qoi_huff_decode"
    /\ data = stream /\ dargs.size = Len(stream)
    /\ pc \in { "huff_pixels", "decode_done" }
    /\ dret \notin { "NULL", "NOMEM" }
\* The code words of the code book a stream carries after its header, from
\* position r.p on: a length byte, then the bits in 2, 3 or 4 bytes.
RECURSIVE CodeWords(_, _, _)
CodeWords(r, bytes, n) ==
    IF n = 0 THEN r
    ELSE IF n = 1
    THEN LET len == At(bytes, r.p)
             k == IF len > 24 THEN 4 ELSE IF len > 16 THEN 3 ELSE 2
         IN  [p |-> r.p + 1 + k,
              words |-> Append(r.words, [len |-> len, bits |-> ReadBits(bytes, r.p + 1, k)])]
    ELSE LET half == CodeWords(r, bytes, n \div 2)
         IN  IF half.p > Len(bytes) THEN half
             ELSE CodeWords(half, bytes, n - n \div 2)
CodeBookWords(bytes) == CodeWords([p |-> QOI_HEADER_SIZE, words |-> <<>>], bytes, Symbols).words
\* The table slots whose low len bits are the code word bits.
SlotsOf(len, bits) ==
    { Val(bits \cup { j + len : j \in Bits(i, QOI_HUFF_DECODING_TABLE_WIDTH - len) }) :
        i \in 0..(Pow2(QOI_HUFF_DECODING_TABLE_WIDTH - len) - 1) }
\* The decode structures hold the code word of byte value b.
Decodable(h, b, word) ==
    IF word.len <= QOI_HUFF_DECODING_TABLE_WIDTH
    THEN \A i \in SlotsOf(word.len, word.bits) : h.table[i] = word.len * 256 + b
    ELSE LET entry == h.table[Val({ j \in word.bits : j < QOI_HUFF_DECODING_TABLE_WIDTH })]
         IN  /\ entry >= TreeBit
             /\ WalkTree(h, entry % TreeBit, Shr(word.bits, QOI_HUFF_DECODING_TABLE_WIDTH))
                  = [fault |-> "none", byteValue |-> b, len |-> word.len]

\* C19: for a code book qoi_huff_encode wrote in Huffman mode, no assertion of
\* qoi_huff_decode_buffer or huff_decode_next_byte fails; after the code book
\* loop every slot whose low len bits equal a code of at most 11 bits carries
\* that symbol's terminal entry, every longer code leads through a tree slot
\* to its own leaf, and each of the 2048 slots is non-zero.
C19_DecodeStructures ==
    DecodesHuffmanStream
    => /\ ~hdec.asserted
       /\ hdec.byteValue = Symbols
       /\ (pc = "huff_pixels" /\ dec.px_pos = 0)
          => /\ \A i \in 0..(TableSize - 1) : hdec.table[i] # 0
             /\ LET words == CodeBookWords(stream)
                IN  \A b \in 0..(Symbols - 1) : Decodable(hdec, b, At(words, b))
\* the code book of a stream with codes on both sides of 11 bits has been read
C19_Witness ==
    /\ DecodesHuffmanStream
    /\ pc = "huff_pixels" /\ dec.px_pos = 0
    /\ \E b \in 0..(Symbols - 1) :
          At(CodeBookWords(stream), b).len > QOI_HUFF_DECODING_TABLE_WIDTH
    /\ \E b \in 0..(Symbols - 1) :
          At(CodeBookWords(stream), b).len < QOI_HUFF_DECODING_TABLE_WIDTH
    /\ hdec.treeNodes # <<>>

\* C20: where qoi_huff_encode counts the code lengths in stats[20], every
\* table[i].len is below 20, so no count is written outside the array.
C20_StatsInBounds ==
    (pc = "huff_stats" /\ efn = "qoi_huff_encode")
    => \A b \in 0..(Symbols - 1) : huff.table[b].len < StatsSize

\* The base decoder is in, or has left, its pixel loop.
InBaseLoop ==
    /\ dfn \in { "qoi_decode", "qoi_huff_decode" }
    /\ pc = "decode_loop" \/ (pc = "decode_done" /\ dret = "pixels")
    /\ hdec.table = <<>> \/ hdec = HuffDecodeStart
    /\ BitAnd(At(data, QOI_HEADER_SIZE - 1), QOI_HUFF_ENCODED_BIT) = 0
\* No byte at or after size has been read, the next chunk names a cache slot
\* that exists, and the output never passes px_len.
BaseDecodeInBounds ==
    InBaseLoop
    => /\ ~dec.oob
       /\ dec.p <= dargs.size
       /\ DOMAIN dec.index = 0..(IndexSize - 1)
       /\ (pc = "decode_loop" /\ dec.run = 0 /\ dec.p < dec.chunks_len)
          => LET b1 == At(data, dec.p)
             IN  (b1 \notin { QOI_OP_RGB, QOI_OP_RGBA }
                    /\ BitAnd(b1, QOI_MASK_2) = QOI_OP_INDEX)
                 => b1 \in DOMAIN dec.index
       /\ dec.px_pos <= dec.px_len
       /\ Len(dec.pixels) = dec.px_pos
       /\ dec.px_len = ddesc.width * ddesc.height * dec.channels
       /\ pc = "decode_done" => dec.px_pos = dec.px_len
\* An iteration writes one pixel, and past the chunk region that pixel is the
\* one decoded last.
BaseDecodeStep ==
    (InBaseLoop /\ pc = "decode_loop" /\ dec' # dec)
    => /\ dec'.px_pos = dec.px_pos + dec.channels
       /\ SubSeq(dec'.pixels, 1, dec.px_pos) = dec.pixels
       /\ (dec.run = 0 /\ dec.p >= dec.chunks_len)
          => /\ dec'.px = dec.px
             /\ dec'.p = dec.p
             /\ SubSeq(dec'.pixels, dec.px_pos + 1, dec.px_pos + 3)
                  = << dec.px.r, dec.px.g, dec.px.b >>
             /\ dec.channels = 4 => dec'.pixels[dec.px_pos + 4] = dec.px.a

\* C21: on an input of at least 22 bytes with a valid header and any body the
\* base decoder reads no byte at an index >= size and uses no cache slot
\* outside 0..63, writes one pixel per iteration and stops after width*height
\* pixels, and once the chunk region is exhausted every further pixel repeats
\* the last decoded one.
C21_BaseDecoderBounds == []BaseDecodeInBounds /\ [][BaseDecodeStep]_vars
\* a chunk cut by the end of the chunk region was read out of the last eight
\* bytes and the pixels after it repeat it
C21_Witness ==
    /\ InBaseLoop
    /\ pc = "decode_done"
    /\ stream \in BodyStreams
    /\ dec.p > dec.chunks_len
    /\ dec.px_len >= 3 * dec.channels
    /\ SubSeq(dec.pixels, dec.px_len - dec.channels + 1, dec.px_len)
         = SubSeq(dec.pixels, 1, dec.channels)
====
